---- MODULE Spec2Model ----
(***************************************************************************)
(* Synchronization and caching engine of buildr-stats-hub.                 *)
(*                                                                         *)
(*   Part I   Fixture Synchronizer   src/src/lib/fixturesService.ts        *)
(*   Part II  Team Season Aggregator src/unnamed/part_007 (statsService)   *)
(*   Part III Player Stats Refresher src/unnamed/part_007 (statsService)   *)
(*   Part IV  Lineup Service         src/unnamed/part_009 (lineupService)  *)
(*   Part V   Live Score route       src/src/app/api/fixtures/[id]/live    *)
(*                                                                         *)
(* Parts I and II count time in whole hours since the UTC midnight of day  *)
(* 0, Parts III to V in milliseconds (nowMs), at the instants around the   *)
(* thresholds the code compares with.  Code that runs between two awaits   *)
(* is one action: the JavaScript event loop runs it without interleaving.  *)
(* Every store query is one action too.                                    *)
(***************************************************************************)
EXTENDS Integers, FiniteSets, Sequences, TLC

\* ------------------------------------------------------------------ bounds
MaxCalls == 2         \* invocations of getOrRefreshTodayFixtures in one run
MaxPerDay == 1        \* fixtures the provider knows per calendar day
MaxNow == 24          \* last hour the clock reaches
MaxSeason == 4        \* longest season fixture list the provider returns
MaxBudget == 2        \* largest maxApiCallsPerInvocation
MaxFalse == 4         \* done:false returns that are counted (then saturates)
NumLeagues == 2       \* leagues in REQUIRED_LEAGUE_IDS (imported from lib/leagues)
\* MAX_FIXTURES_PER_SEASON is 38 in the source; it is scaled so that a season
\* list longer than the cap fits the bounds (MaxSeason > cap).
MAX_FIXTURES_PER_SEASON == 3
MaxDays == 1          \* cooldown periods the clock of Part III spans
MaxPlayers == 2       \* players of a team the provider knows
KickoffHours == 2     \* kickoff of the fixture of Parts IV and V, hours
MaxGoals == 1         \* goals the home team scores at most

\* --------------------------------------------------------------- constants
HoursPerDay == 24
ClockStart == HoursPerDay - 1   \* the run starts at 23:00 UTC of day 0

VARIABLES
    \* ---- clock
    now,                  \* current time, hours
    tzOffset,             \* Europe/London offset to UTC: 0 (GMT) or 1 (BST)
    \* ---- Entity Store
    fixture,              \* Fixture rows
    team,                 \* Team rows (apiId)
    apiFetchLog,          \* ApiFetchLog rows
    teamFixtureCache,     \* TeamFixtureCache rows of one (team, season, league)
    teamSeasonStats,      \* TeamSeasonStats row of that key (at most one)
    \* ---- Fixture Synchronizer, process memory
    todayFixturesPromise, \* globalForFixtures.todayFixturesPromise
    pc,                   \* position of each caller of getOrRefreshTodayFixtures
    dateKey,              \* each caller's dateKey (the day of its `now`)
    existingFixtures,     \* each caller's read of the day's Fixture rows
    lastFetchLog,         \* each caller's read of the newest success marker
    awaiting,             \* the refresh promise each caller awaits (its owner)
    lastReturn,           \* the latest return: its rows, how, and to whom
    refresh,              \* the refreshPromise each caller created
    \* ---- Fixture Synchronizer, observation
    fetchCalls,           \* fetchTodayFixtures calls issued so far
    fetchesThisInstant,   \* refreshes started since the clock last moved
    calls,                \* invocations so far
    \* ---- Team Season Aggregator, one invocation at a time
    inv,                  \* locals of the running invocation
    prov,                 \* the provider's season data and the configured budget
    obs,                  \* observation of the aggregator's provider calls
    \* ---- clock of Parts III to V
    nowMs,                \* Date.now(), milliseconds
    \* ---- Player Stats Refresher, one (team, season, league)
    playerSeasonStats,    \* PlayerSeasonStats rows of that key
    ps,                   \* locals of the running fetchAndStorePlayerStats
    \* ---- Lineup Service, one fixture
    player,               \* Player rows (teamId, apiId)
    fixtureLineup,        \* FixtureLineup rows of the fixture
    lu,                   \* locals of the running ensureLineupIfWithinWindow
    \* ---- Live Score route, one fixture
    liveScoreCache,       \* the fixture's LiveScoreCache row ({} if none)
    match,                \* the provider's state of the fixture
    lv,                   \* locals of each running GET handler
    liveObs,              \* observation of the live route's history
    \* ---- per-match statistics of the fixture statistics response
    cacheRows,            \* the TeamFixtureCache rows of a team's season
    seasonRow,            \* the team's TeamSeasonStats row ({} if none)
    perMatch,             \* the per-match figures computed so far
    \* ---- one refresh of the Fixture Synchronizer, step by step
    run,                  \* locals of the refresh promise
    \* ---- External Provider Client
    client,               \* configuration, the provider's reply, the outcome
    \* ---- two concurrent invocations of the Player Stats Refresher
    wr,                   \* the provider's answer and each storeOne's position
    pssTable,             \* the PlayerSeasonStats rows, with their ids
    \* ---- warm driver script
    warm,                 \* its position in a fixture's sequence, its requests
    \* ---- forced refresh
    clr                   \* position and locals of clearTodayFixturesCacheAndData

vars == << now, tzOffset, fixture, team, apiFetchLog, teamFixtureCache,
           teamSeasonStats, todayFixturesPromise, pc, dateKey,
           existingFixtures, lastFetchLog, awaiting, lastReturn, refresh,
           fetchCalls, fetchesThisInstant, calls, inv, prov, obs, nowMs,
           playerSeasonStats, ps, player, fixtureLineup, lu, liveScoreCache,
           match, lv, liveObs, cacheRows, seasonRow, perMatch, run, client, wr,
           pssTable, warm, clr >>

fixVars == << fixture, team, apiFetchLog, todayFixturesPromise, pc, dateKey,
              existingFixtures, lastFetchLog, awaiting, lastReturn, refresh,
              fetchCalls, fetchesThisInstant, calls >>

teamVars == << teamFixtureCache, teamSeasonStats, inv, prov, obs >>

playerVars == << playerSeasonStats, ps >>

lineupVars == << player, fixtureLineup, lu >>

liveVars == << liveScoreCache, match, lv, liveObs >>

statVars == << cacheRows, seasonRow, perMatch >>

drvVars == << warm, clr >>

extVars == << statVars, run, client, wr, pssTable, drvVars >>

\* What the parts after the live route leave alone.
baseVars == << now, tzOffset, teamVars, nowMs, playerVars, lineupVars,
               liveVars >>

\* The locals of the callers of the Fixture Synchronizer.
fixLocals == << todayFixturesPromise, pc, dateKey, existingFixtures,
                lastFetchLog, awaiting, lastReturn, refresh, fetchCalls,
                fetchesThisInstant, calls >>

statRest == << fixVars, run, client, wr, pssTable, drvVars >>

runRest == << fixLocals, statVars, client, wr, pssTable, drvVars >>

clientRest == << fixVars, statVars, run, wr, pssTable, drvVars >>

\* What the concurrent writers leave alone, the Player table apart.
writerRest == << now, tzOffset, fixVars, teamVars, nowMs, playerVars,
                 fixtureLineup, lu, liveVars, statVars, run, client,
                 drvVars >>

compVars == << nowMs, playerVars, lineupVars, liveVars, extVars >>

NoPromise == [ dateKey |-> -1, owner |-> 0 ]
NoLog == [ resource |-> << "none", 0 >>, success |-> FALSE, fetchedAt |-> -1 ]
\* Two request handlers of the one process: the overlap the single-flight
\* registry is about is an overlap of two calls.
Callers == {1, 2}
Leagues == 1..NumLeagues

\* =========================================================================
\* Part I: Fixture Synchronizer
\* =========================================================================

\* toLocaleDateString("en-CA", {timeZone: "Europe/London"}): the calendar day
\* of the London wall clock, as a day number.
getTodayDateKey(t) == (t + tzOffset) \div HoursPerDay

\* new Date(`${dateKey}T00:00:00.000Z`) and ...T23:59:59.999Z: UTC bounds.
dayStartUtc(dk) == dk * HoursPerDay
dayEndUtc(dk) == dk * HoursPerDay + (HoursPerDay - 1)

FixturesResource(dk) == << "fixtures", dk >>

\* The provider's fixtures of a calendar day: k-th fixture of day d.  Kick-off
\* is in the afternoon, teams are 2k-1 (home) and 2k (away).
RawFixture(d, k) ==
    [ apiId |-> d * MaxPerDay + k,
      date |-> d * HoursPerDay + 14 + k,
      home |-> 2 * k - 1,
      away |-> 2 * k ]

RawOfDay(d) == { RawFixture(d, k) : k \in 1..MaxPerDay }

\* where: {date: {gte: dayStart, lte: dayEnd}}
InDay(rows, dk) ==
    { f \in rows : f.date >= dayStartUtc(dk) /\ f.date <= dayEndUtc(dk) }

\* findFirst({resource, success: true}, orderBy fetchedAt desc)
NewestSuccess(resource) ==
    LET ok == { l \in apiFetchLog : l.resource = resource /\ l.success }
    IN  IF ok = {} THEN NoLog
        ELSE CHOOSE l \in ok : \A m \in ok : m.fetchedAt <= l.fetchedAt

NoRefresh == [ stage |-> "none", dateKey |-> 0, raw |-> {}, teamsDone |-> {},
               result |-> {} ]
NoReturn == [ via |-> "none", rows |-> {}, to |-> {} ]

\* A settled promise that the global no longer references is unreachable.
Collected(rf, reg) ==
    [ p \in Callers |->
        IF rf[p].stage = "settled" /\ reg.owner # p THEN NoRefresh ELSE rf[p] ]

InFlight(p) == refresh[p].stage \notin {"none", "settled"}

\* getOrRefreshTodayFixtures(now), lines 91-97: entry, up to `await prune`.
Call(c) ==
    /\ pc[c] = "idle"
    /\ calls < MaxCalls
    /\ calls' = calls + 1
    /\ pc' = [pc EXCEPT ![c] = "prune"]
    /\ dateKey' = [dateKey EXCEPT ![c] = getTodayDateKey(now)]
    /\ UNCHANGED << now, tzOffset, fixture, team, apiFetchLog,
                    todayFixturesPromise, existingFixtures, lastFetchLog,
                    awaiting, lastReturn, refresh, fetchCalls,
                    fetchesThisInstant, teamVars, compVars >>

\* Variant of PrunedFixtures: no Fixture row is deleted.
PrunedFixtures_None(dk) == fixture

\* pruneDataOlderThanToday, lines 49-63: one transaction deleting the Fixture
\* rows dated outside the day and every ApiFetchLog row that is not
\* fixtures:<day>.
PrunedFixtures(dk) == InDay(fixture, dk)
PrunedLogs(dk) == { l \in apiFetchLog : l.resource = FixturesResource(dk) }

Prune(c) ==
    /\ pc[c] = "prune"
    /\ fixture' = PrunedFixtures(dateKey[c])
    /\ apiFetchLog' = PrunedLogs(dateKey[c])
    /\ pc' = [pc EXCEPT ![c] = "read"]
    /\ UNCHANGED << now, tzOffset, team, todayFixturesPromise, dateKey,
                    existingFixtures, lastFetchLog, awaiting, lastReturn,
                    refresh, fetchCalls, fetchesThisInstant, calls, teamVars,
                    compVars >>

\* Variant of CacheHit: the marker must be strictly newer than the day's start.
CacheHit_Strict(existing, log, dk) ==
    /\ log # NoLog
    /\ log.fetchedAt > dayStartUtc(dk)
    /\ existing # {}

\* line 127: only use the cache if we have fixtures AND the last fetch was today
CacheHit(existing, log, dk) ==
    /\ log # NoLog
    /\ log.fetchedAt >= dayStartUtc(dk)
    /\ existing # {}

\* Variant of JoinInFlight: the registered promise is joined whatever was read.
JoinInFlight_AnyRows(existing, dk) ==
    /\ todayFixturesPromise # NoPromise
    /\ todayFixturesPromise.dateKey = dk

\* line 133: a refresh is registered for the day and we have fixtures
JoinInFlight(existing, dk) ==
    /\ todayFixturesPromise # NoPromise
    /\ todayFixturesPromise.dateKey = dk
    /\ existing # {}

\* The caller's locals are dead once it returns.
Returns(c, via, rows) ==
    /\ pc' = [pc EXCEPT ![c] = "idle"]
    /\ dateKey' = [dateKey EXCEPT ![c] = 0]
    /\ existingFixtures' = [existingFixtures EXCEPT ![c] = {}]
    /\ lastFetchLog' = [lastFetchLog EXCEPT ![c] = NoLog]
    /\ lastReturn' = [ via |-> via, rows |-> rows, to |-> {c} ]

\* lines 140-154 and 277: the refresh promise is created, its synchronous
\* prefix issues one fetchTodayFixtures call per required league, and the
\* promise is stored in the global.
StartRefresh(c, dk) ==
    LET reg == [ dateKey |-> dk, owner |-> c ]
    IN  /\ refresh' = Collected(
              [refresh EXCEPT ![c] =
                 [NoRefresh EXCEPT !.stage = "fetching", !.dateKey = dk]], reg)
        /\ todayFixturesPromise' = reg
        /\ fetchCalls' = fetchCalls + NumLeagues
        /\ fetchesThisInstant' = fetchesThisInstant + 1
        /\ awaiting' = [awaiting EXCEPT ![c] = c]
        /\ pc' = [pc EXCEPT ![c] = "await"]
        /\ UNCHANGED << dateKey, lastReturn, compVars >>

\* lines 127-136: cache hit, join of the registered promise, or a new refresh.
Decide(c, existing, log, dk) ==
    IF CacheHit(existing, log, dk)
    THEN /\ Returns(c, "hit", existing)
         /\ UNCHANGED << refresh, todayFixturesPromise, fetchCalls,
                         fetchesThisInstant, awaiting, compVars >>
    ELSE IF JoinInFlight(existing, dk)
    THEN LET o == todayFixturesPromise.owner
         IN  /\ IF refresh[o].stage = "settled"
                THEN /\ Returns(c, "joined", refresh[o].result)
                     /\ awaiting' = awaiting
                ELSE /\ pc' = [pc EXCEPT ![c] = "await"]
                     /\ awaiting' = [awaiting EXCEPT ![c] = o]
                     /\ UNCHANGED << dateKey, lastReturn, compVars >>
                     /\ existingFixtures' = [existingFixtures EXCEPT ![c] = {}]
                     /\ lastFetchLog' = [lastFetchLog EXCEPT ![c] = NoLog]
             /\ UNCHANGED << refresh, todayFixturesPromise, fetchCalls,
                             fetchesThisInstant, compVars >>
    ELSE /\ StartRefresh(c, dk)
         /\ existingFixtures' = [existingFixtures EXCEPT ![c] = existing]
         /\ lastFetchLog' = [lastFetchLog EXCEPT ![c] = log]

\* lines 99-136: both reads (issued together), then the synchronous code up
\* to the next await.  With no fixture stored the global is cleared and the
\* call awaits the deletion of the day's markers; otherwise it decides.
Read(c) ==
    /\ pc[c] = "read"
    /\ LET dk == dateKey[c]
           existing == InDay(fixture, dk)
           log == NewestSuccess(FixturesResource(dk))
       IN  IF existing = {}
           THEN /\ existingFixtures' = [existingFixtures EXCEPT ![c] = existing]
                /\ lastFetchLog' = [lastFetchLog EXCEPT ![c] = log]
                /\ todayFixturesPromise' = NoPromise
                /\ refresh' = Collected(refresh, NoPromise)
                /\ pc' = [pc EXCEPT ![c] = "clearlog"]
                /\ UNCHANGED << dateKey, fetchCalls, fetchesThisInstant,
                                awaiting, lastReturn, compVars >>
           ELSE Decide(c, existing, log, dk)
    /\ UNCHANGED << now, tzOffset, fixture, team, apiFetchLog, calls,
                    teamVars, compVars >>

\* line 122: deleteMany({resource: fixtures:<day>})
LogsAfterClear(dk) == { l \in apiFetchLog : l.resource # FixturesResource(dk) }

ClearLog(c) ==
    /\ pc[c] = "clearlog"
    /\ apiFetchLog' = LogsAfterClear(dateKey[c])
    /\ pc' = [pc EXCEPT ![c] = "decide"]
    /\ UNCHANGED << now, tzOffset, fixture, team, todayFixturesPromise,
                    dateKey, existingFixtures, lastFetchLog, awaiting,
                    lastReturn, refresh, fetchCalls, fetchesThisInstant, calls,
                    teamVars, compVars >>

\* lines 126-136 resumed after the deletion, with the values read before it.
DecideAfterClear(c) ==
    /\ pc[c] = "decide"
    /\ Decide(c, existingFixtures[c], lastFetchLog[c], dateKey[c])
    /\ UNCHANGED << now, tzOffset, fixture, team, apiFetchLog, calls,
                    teamVars, compVars >>

\* lines 155-161: the results are flattened and de-duplicated by external id.
Dedupe(results) == UNION { results[l] : l \in Leagues }

\* lines 150-163: Promise.all over the league calls resolves.
ProviderAnswers(p) ==
    /\ refresh[p].stage = "fetching"
    /\ \E rawFixtures \in
           { Dedupe(results) :
               results \in [ Leagues -> SUBSET RawOfDay(refresh[p].dateKey) ] } :
         refresh' = [refresh EXCEPT ![p].raw = rawFixtures,
                                    ![p].stage = "upsert"]
    /\ UNCHANGED << now, tzOffset, fixture, team, apiFetchLog,
                    todayFixturesPromise, pc, dateKey, existingFixtures,
                    lastFetchLog, awaiting, lastReturn, fetchCalls,
                    fetchesThisInstant, calls, teamVars, compVars >>

\* lines 150-154, 254-257: one of the league calls throws; Promise.all
\* rejects and the catch block takes over.
ProviderFails(p) ==
    /\ refresh[p].stage = "fetching"
    /\ refresh' = [refresh EXCEPT ![p].stage = "faillog"]
    /\ UNCHANGED << now, tzOffset, fixture, team, apiFetchLog,
                    todayFixturesPromise, pc, dateKey, existingFixtures,
                    lastFetchLog, awaiting, lastReturn, fetchCalls,
                    fetchesThisInstant, calls, teamVars, compVars >>

\* lines 187-216: the two team upserts of one fixture (Promise.all).
UpsertTeams(p, r) ==
    /\ refresh[p].stage = "upsert"
    /\ r \in refresh[p].raw
    /\ r \notin refresh[p].teamsDone
    /\ team' = team \cup {r.home, r.away}
    /\ refresh' = [refresh EXCEPT ![p].teamsDone = @ \cup {r}]
    /\ UNCHANGED << now, tzOffset, fixture, apiFetchLog, todayFixturesPromise,
                    pc, dateKey, existingFixtures, lastFetchLog, awaiting,
                    lastReturn, fetchCalls, fetchesThisInstant, calls,
                    teamVars, compVars >>

\* prisma.fixture.upsert({where: {apiId}}): the row with that apiId is
\* replaced or created.
FixtureUpserted(rows, r) == { f \in rows : f.apiId # r.apiId } \cup {r}

\* lines 218-237: the fixture upsert, after both team upserts.
UpsertFixture(p, r) ==
    /\ refresh[p].stage = "upsert"
    /\ r \in refresh[p].raw
    /\ r \in refresh[p].teamsDone
    /\ fixture' = FixtureUpserted(fixture, r)
    /\ refresh' = [refresh EXCEPT ![p].raw = @ \ {r},
                                  ![p].teamsDone = @ \ {r}]
    /\ UNCHANGED << now, tzOffset, team, apiFetchLog, todayFixturesPromise,
                    pc, dateKey, existingFixtures, lastFetchLog, awaiting,
                    lastReturn, fetchCalls, fetchesThisInstant, calls,
                    teamVars, compVars >>

\* lines 238-241: an upsert of this fixture (a team or the fixture) throws;
\* the error is counted and the batch goes on.
UpsertError(p, r) ==
    /\ refresh[p].stage = "upsert"
    /\ r \in refresh[p].raw
    /\ refresh' = [refresh EXCEPT ![p].raw = @ \ {r},
                                  ![p].teamsDone = @ \ {r}]
    /\ UNCHANGED << now, tzOffset, fixture, team, apiFetchLog,
                    todayFixturesPromise, pc, dateKey, existingFixtures,
                    lastFetchLog, awaiting, lastReturn, fetchCalls,
                    fetchesThisInstant, calls, teamVars, compVars >>

\* lines 246-253: the success marker, once every batch has settled.
WriteSuccessLog(p) ==
    /\ refresh[p].stage = "upsert"
    /\ refresh[p].raw = {}
    /\ apiFetchLog' = apiFetchLog \cup
         {[ resource |-> FixturesResource(refresh[p].dateKey),
            success |-> TRUE, fetchedAt |-> now ]}
    /\ refresh' = [refresh EXCEPT ![p].stage = "reread"]
    /\ UNCHANGED << now, tzOffset, fixture, team, todayFixturesPromise, pc,
                    dateKey, existingFixtures, lastFetchLog, awaiting,
                    lastReturn, fetchCalls, fetchesThisInstant, calls,
                    teamVars, compVars >>

\* lines 254-265: the failure marker.
WriteFailureLog(p) ==
    /\ refresh[p].stage = "faillog"
    /\ apiFetchLog' = apiFetchLog \cup
         {[ resource |-> FixturesResource(refresh[p].dateKey),
            success |-> FALSE, fetchedAt |-> now ]}
    /\ refresh' = [refresh EXCEPT ![p].stage = "reread"]
    /\ UNCHANGED << now, tzOffset, fixture, team, todayFixturesPromise, pc,
                    dateKey, existingFixtures, lastFetchLog, awaiting,
                    lastReturn, fetchCalls, fetchesThisInstant, calls,
                    teamVars, compVars >>

\* lines 267-274, 289: the re-read of the day's rows resolves the promise;
\* the creator and every caller that joined it resume with its value.  The
\* global keeps the settled promise (only a rejection clears it, 281-287).
Resolve(p) ==
    /\ refresh[p].stage = "reread"
    /\ LET rows == InDay(fixture, refresh[p].dateKey)
           waiters == { c \in Callers : pc[c] = "await" /\ awaiting[c] = p }
           keep(f, c, idle) == IF c \in waiters THEN idle ELSE f[c]
       IN  /\ refresh' = Collected(
                 [refresh EXCEPT ![p].stage = "settled", ![p].result = rows],
                 todayFixturesPromise)
           /\ pc' = [ c \in Callers |-> keep(pc, c, "idle") ]
           /\ dateKey' = [ c \in Callers |-> keep(dateKey, c, 0) ]
           /\ existingFixtures' = [ c \in Callers |-> keep(existingFixtures, c, {}) ]
           /\ lastFetchLog' = [ c \in Callers |-> keep(lastFetchLog, c, NoLog) ]
           /\ awaiting' = [ c \in Callers |-> keep(awaiting, c, 0) ]
           /\ lastReturn' = [ via |-> "refresh", rows |-> rows, to |-> waiters ]
    /\ UNCHANGED << now, tzOffset, fixture, team, apiFetchLog,
                    todayFixturesPromise, fetchCalls, fetchesThisInstant,
                    calls, teamVars, compVars >>

\* Time passes.
Tick ==
    /\ now < MaxNow
    /\ now' = now + 1
    /\ fetchesThisInstant' = 0
    /\ UNCHANGED << tzOffset, fixture, team, apiFetchLog,
                    todayFixturesPromise, pc, dateKey, existingFixtures,
                    lastFetchLog, awaiting, lastReturn, refresh, fetchCalls,
                    calls, teamVars, compVars >>

\* =========================================================================
\* Part II: Team Season Aggregator
\*   ensureTeamSeasonStatsCornersAndCards for one (team, season, league),
\*   one invocation at a time.  fixtureIds is indexed from 1 here (from 0 in
\*   the source), so inv.i is the source's i + 1.
\* =========================================================================

TeamResource == << "teamSeasonCorners", 0 >>

\* ---- provider data.  The season's fixtures have the external ids 1..N, in
\* the order the provider lists them.
NullStat == [ corners |-> 0, yellowCards |-> 0, redCards |-> 0, xg |-> {},
              null |-> TRUE ]

\* fetchFixtureStatistics' value for a fixture the provider has statistics
\* of.  xg is {} for null: a provider value of 0 is turned into null.
StatOf(f) ==
    [ corners |-> f + 4, yellowCards |-> f, redCards |-> f % 2,
      xg |-> IF f % 2 = 0 THEN {} ELSE {f}, null |-> FALSE ]

NullMeta == [ date |-> 0, goalsFor |-> 0, goalsAgainst |-> 0, null |-> TRUE ]

\* fixturesMeta[i]: date and score of the i-th listed fixture.
MetaOf(f) ==
    [ date |-> f, goalsFor |-> f % 3, goalsAgainst |-> 1, null |-> FALSE ]

RECURSIVE SumOver(_, _)
SumOver(n, field) ==
    IF n = 0 THEN 0 ELSE MetaOf(n)[field] + SumOver(n - 1, field)

\* fetchTeamFixturesWithGoals: ids, goal sums and played of a list of n
\* fixtures; the empty answer when the response is empty or the request fails.
TeamFixturesWithGoals(n) ==
    [ fixtureIds |-> [ k \in 1..n |-> k ],
      goalsFor |-> SumOver(n, "goalsFor"),
      goalsAgainst |-> SumOver(n, "goalsAgainst"),
      played |-> n ]

\* ---- locals of an invocation
NoBudget == [ set |-> FALSE, n |-> 0 ]
Budget(b) == [ set |-> TRUE, n |-> b ]

NoRow == [ apiFixtureId |-> 0, fixtureDate |-> 0, goalsFor |-> 0,
           goalsAgainst |-> 0, xg |-> {}, corners |-> 0, yellowCards |-> 0,
           redCards |-> 0 ]

NoAgg == [ corners |-> 0, yellowCards |-> 0, redCards |-> 0, xgFor |-> {} ]

IdleInv ==
    [ pc |-> "idle", maxCalls |-> NoBudget, list |-> TeamFixturesWithGoals(0),
      limit |-> 0, i |-> 1, apiCalls |-> 0, cached |-> {}, called |-> {},
      stored |-> {}, pending |-> NoRow, agg |-> NoAgg, outcome |-> "none",
      cutAt |-> "none", hadRow |-> FALSE, hadMarker |-> FALSE,
      listCalls |-> 0, wroteSeason |-> FALSE, wroteMarker |-> FALSE,
      prevCut |-> FALSE, listFailed |-> FALSE ]

IdleProv == [ seasonLen |-> 0, chunk |-> 1, flaky |-> FALSE, noStats |-> {} ]

\* The statistics calls per fixture and the done:false returns are counted
\* as long as the history is clean: budgeted invocations only, no request
\* failed, nothing was cut off.
IdleObs == [ statCalls |-> [ f \in 1..MaxSeason |-> 0 ], falseReturns |-> 0,
             clean |-> TRUE ]

Unclean == [ IdleObs EXCEPT !.clean = FALSE ]

\* line 110
Limit(len) == IF len < MAX_FIXTURES_PER_SEASON THEN len
              ELSE MAX_FIXTURES_PER_SEASON

CacheIds(rows) == { r.apiFixtureId : r \in rows }

\* lines 114-125: the cache rows of the fixtures to process, by fixture id
CacheByApiFixtureId(rows, limit) == CacheIds(rows) \cap 1..limit

\* Variant of BudgetExhausted: one call more than the budget is let through.
BudgetExhausted_Late(maxCalls, apiCalls) ==
    maxCalls.set /\ apiCalls > maxCalls.n

\* line 130
BudgetExhausted(maxCalls, apiCalls) ==
    maxCalls.set /\ apiCalls >= maxCalls.n

\* Variant of IsCached: the cache is never consulted.
IsCached_Never(cached, id) == FALSE

\* lines 135-137
IsCached(cached, id) == id \in cached

\* Variant of ShouldStore: a row is stored whatever the provider returned.
ShouldStore_Always(stat, meta) == TRUE

\* line 144
ShouldStore(stat, meta) == ~stat.null /\ ~meta.null

\* lines 154-166
CacheRow(id, stat, meta) ==
    [ apiFixtureId |-> id, fixtureDate |-> meta.date,
      goalsFor |-> meta.goalsFor, goalsAgainst |-> meta.goalsAgainst,
      xg |-> stat.xg, corners |-> stat.corners,
      yellowCards |-> stat.yellowCards, redCards |-> stat.redCards ]

Saturating(n, max) == IF n < max THEN n + 1 ELSE max

\* lines 129-142: the loop from index i up to its next await or return.
\* "false" is the return of line 131, "call" the statistics call of line 143
\* for fixtureIds[i], "end" the loop's end.
RECURSIVE NextStop(_, _)
NextStop(v, i) ==
    IF i > v.limit THEN [ at |-> "end", i |-> i ]
    ELSE IF BudgetExhausted(v.maxCalls, v.apiCalls)
         THEN [ at |-> "false", i |-> i ]
    ELSE IF IsCached(v.cached, v.list.fixtureIds[i]) THEN NextStop(v, i + 1)
    ELSE [ at |-> "call", i |-> i ]

\* The invocation's locals once the loop, entered at index i, has run to its
\* next await or return.
Advance(v, i) ==
    LET s == NextStop(v, i) IN
    IF s.at = "end" THEN [ v EXCEPT !.pc = "aggRead", !.i = s.i ]
    ELSE IF s.at = "false"
         THEN [ v EXCEPT !.pc = "idle", !.i = s.i, !.outcome = "false" ]
    ELSE [ v EXCEPT !.pc = "stat", !.i = s.i, !.apiCalls = @ + 1,
                    !.called = @ \cup { v.list.fixtureIds[s.i] } ]

\* What that stretch of the loop adds to the observation.
AdvanceObs(o, v, i) ==
    LET s == NextStop(v, i) IN
    IF ~o.clean \/ s.at = "end" THEN o
    ELSE IF s.at = "false"
         THEN [ o EXCEPT !.falseReturns = Saturating(@, MaxFalse) ]
    ELSE [ o EXCEPT !.statCalls[v.list.fixtureIds[s.i]] = Saturating(@, 2) ]

\* statsService getTeamStatsDayStart: the marker was written today
SameDayMarker(logs) ==
    \E l \in logs : /\ l.resource = TeamResource
                    /\ l.success
                    /\ l.fetchedAt >= dayStartUtc(getTodayDateKey(now))

\* lines 103-107: entry; the season fixture-list call is issued at once.
StartInvocation(maxCalls) ==
    /\ inv.pc = "idle"
    /\ inv' = [ IdleInv EXCEPT !.pc = "list",
                               !.maxCalls = maxCalls,
                               !.listCalls = 1,
                               !.hadRow = (teamSeasonStats # {}),
                               !.hadMarker = SameDayMarker(apiFetchLog),
                               !.prevCut = (inv.outcome = "cut") ]
    /\ UNCHANGED << now, tzOffset, fixVars, teamFixtureCache,
                    teamSeasonStats, prov, compVars >>

\* warmFixturePart, parts teamstats-home / teamstats-away
WarmFixturePart ==
    /\ StartInvocation(Budget(prov.chunk))
    /\ obs' = obs

\* getFixtureStats: only for a team without a TeamSeasonStats row, no budget
GetFixtureStats ==
    /\ teamSeasonStats = {}
    /\ StartInvocation(NoBudget)
    /\ obs' = Unclean

\* warmTeamStatsUntilDone: the driver asks again while done is false
DriverInvoke ==
    /\ inv.outcome # "true"
    /\ WarmFixturePart

\* line 107 returns the season's list; lines 108-111
ListAnswers ==
    /\ inv.pc = "list"
    /\ inv' = [ inv EXCEPT !.pc = "cacheRead",
                           !.list = TeamFixturesWithGoals(prov.seasonLen),
                           !.limit = Limit(prov.seasonLen) ]
    /\ UNCHANGED << now, tzOffset, fixVars, teamFixtureCache,
                    teamSeasonStats, prov, obs, compVars >>

\* the list request fails: fetchTeamFixturesWithGoals returns the empty list
ListFails ==
    /\ inv.pc = "list"
    /\ prov.flaky
    /\ inv' = [ inv EXCEPT !.pc = "cacheRead",
                           !.list = TeamFixturesWithGoals(0),
                           !.limit = Limit(0),
                           !.listFailed = TRUE ]
    /\ obs' = Unclean
    /\ UNCHANGED << now, tzOffset, fixVars, teamFixtureCache,
                    teamSeasonStats, prov, compVars >>

\* lines 114-127, then the loop up to its first await or return
CacheRead ==
    /\ inv.pc = "cacheRead"
    /\ LET v == [ inv EXCEPT
                    !.cached = CacheByApiFixtureId(teamFixtureCache,
                                                   inv.limit) ]
       IN /\ inv' = Advance(v, 1)
          /\ obs' = AdvanceObs(obs, v, 1)
    /\ UNCHANGED << now, tzOffset, fixVars, teamFixtureCache,
                    teamSeasonStats, prov, compVars >>

CurrentId == inv.list.fixtureIds[inv.i]

\* lines 143-144: the statistics call returns stat; o is the observation
\* once the answer is recorded.
StatReturns(stat, o) ==
    /\ IF ShouldStore(stat, MetaOf(CurrentId))
       THEN /\ inv' = [ inv EXCEPT
                          !.pc = "upsert",
                          !.pending = CacheRow(CurrentId, stat,
                                               MetaOf(CurrentId)) ]
            /\ obs' = o
       ELSE /\ inv' = Advance(inv, inv.i + 1)
            /\ obs' = AdvanceObs(o, inv, inv.i + 1)
    /\ UNCHANGED << now, tzOffset, fixVars, teamFixtureCache,
                    teamSeasonStats, prov, compVars >>

\* the provider has statistics of the fixture
StatAnswers ==
    /\ inv.pc = "stat"
    /\ CurrentId \notin prov.noStats
    /\ StatReturns(StatOf(CurrentId), obs)

\* fetchFixtureStatistics returns null: empty response or failed request
StatNull ==
    /\ inv.pc = "stat"
    /\ prov.flaky \/ CurrentId \in prov.noStats
    /\ StatReturns(NullStat, Unclean)

\* Variant of CacheUpserted: the table is replaced by the row.
CacheUpserted_Replace(rows, row) == {row}

CacheUpserted(rows, row) ==
    { r \in rows : r.apiFixtureId # row.apiFixtureId } \cup {row}

\* lines 145-176 complete; the loop goes on with the next index
CacheUpsert ==
    /\ inv.pc = "upsert"
    /\ teamFixtureCache' = CacheUpserted(teamFixtureCache, inv.pending)
    /\ LET v == [ inv EXCEPT !.pending = NoRow,
                             !.stored = @ \cup {CurrentId} ]
       IN /\ inv' = Advance(v, inv.i + 1)
          /\ obs' = AdvanceObs(obs, v, inv.i + 1)
    /\ UNCHANGED << now, tzOffset, fixVars, teamSeasonStats, prov, compVars >>

RECURSIVE SumRows(_, _)
SumRows(rows, field) ==
    IF rows = {} THEN 0
    ELSE LET r == CHOOSE x \in rows : TRUE
         IN r[field] + SumRows(rows \ {r}, field)

RECURSIVE SumXg(_)
SumXg(rows) ==
    IF rows = {} THEN 0
    ELSE LET r == CHOOSE x \in rows : TRUE
         IN (IF r.xg = {} THEN 0 ELSE CHOOSE x \in r.xg : TRUE)
            + SumXg(rows \ {r})

\* lines 191-205
Aggregate(rows) ==
    [ corners |-> SumRows(rows, "corners"),
      yellowCards |-> SumRows(rows, "yellowCards"),
      redCards |-> SumRows(rows, "redCards"),
      xgFor |-> IF \E r \in rows : r.xg # {} THEN { SumXg(rows) } ELSE {} ]

\* lines 181-205: re-read the cache rows of the fixtures to process, sum them
AggRead ==
    /\ inv.pc = "aggRead"
    /\ inv' = [ inv EXCEPT
                  !.pc = "seasonUpsert",
                  !.agg = Aggregate({ r \in teamFixtureCache :
                                        r.apiFixtureId \in 1..inv.limit }) ]
    /\ UNCHANGED << now, tzOffset, fixVars, teamFixtureCache,
                    teamSeasonStats, prov, obs, compVars >>

\* lines 108, 211-232
SeasonRow(list, agg) ==
    [ minutesPlayed |-> list.played * 90, goalsFor |-> list.goalsFor,
      goalsAgainst |-> list.goalsAgainst, xgFor |-> agg.xgFor,
      corners |-> agg.corners, yellowCards |-> agg.yellowCards,
      redCards |-> agg.redCards ]

\* lines 207-233 complete
SeasonUpsert ==
    /\ inv.pc = "seasonUpsert"
    /\ teamSeasonStats' = { SeasonRow(inv.list, inv.agg) }
    /\ inv' = [ inv EXCEPT !.pc = "logCreate", !.wroteSeason = TRUE ]
    /\ UNCHANGED << now, tzOffset, fixVars, teamFixtureCache, prov, obs, compVars >>

TeamMarker == [ resource |-> TeamResource, success |-> TRUE, fetchedAt |-> now ]

\* lines 235-238 complete: the marker is written, done:true is returned
LogCreate ==
    /\ inv.pc = "logCreate"
    /\ apiFetchLog' = apiFetchLog \cup { TeamMarker }
    /\ inv' = [ inv EXCEPT !.pc = "idle", !.outcome = "true",
                           !.wroteMarker = TRUE ]
    /\ UNCHANGED << now, tzOffset, fixture, team, todayFixturesPromise, pc,
                    dateKey, existingFixtures, lastFetchLog, awaiting,
                    lastReturn, refresh, fetchCalls, fetchesThisInstant,
                    calls, teamFixtureCache, teamSeasonStats, prov, obs,
                    compVars >>

\* The invocation is cut off at the await it is suspended at (the platform
\* ends the request).  A store write that is pending at that moment has been
\* applied or has not.
CutOff(applied) ==
    /\ inv.pc # "idle"
    /\ applied => inv.pc \in {"upsert", "seasonUpsert", "logCreate"}
    /\ teamFixtureCache' =
         IF applied /\ inv.pc = "upsert"
         THEN CacheUpserted(teamFixtureCache, inv.pending)
         ELSE teamFixtureCache
    /\ teamSeasonStats' =
         IF applied /\ inv.pc = "seasonUpsert"
         THEN { SeasonRow(inv.list, inv.agg) }
         ELSE teamSeasonStats
    /\ apiFetchLog' =
         IF applied /\ inv.pc = "logCreate"
         THEN apiFetchLog \cup { TeamMarker }
         ELSE apiFetchLog
    /\ inv' = [ inv EXCEPT
                  !.pc = "idle", !.outcome = "cut", !.cutAt = inv.pc,
                  !.stored = IF applied /\ inv.pc = "upsert"
                             THEN @ \cup {CurrentId} ELSE @,
                  !.wroteSeason = @ \/ (applied /\ inv.pc = "seasonUpsert"),
                  !.wroteMarker = @ \/ (applied /\ inv.pc = "logCreate") ]
    /\ obs' = Unclean
    /\ UNCHANGED << now, tzOffset, fixture, team, todayFixturesPromise, pc,
                    dateKey, existingFixtures, lastFetchLog, awaiting,
                    lastReturn, refresh, fetchCalls, fetchesThisInstant,
                    calls, prov, compVars >>
\* =========================================================================
\* Part III: Player Stats Refresher
\*   fetchAndStorePlayerStats for one (team, season, league), one invocation
\*   at a time.
\* =========================================================================

\* line 242
PLAYER_STATS_REFRESH_COOLDOWN_MS == 24 * 60 * 60 * 1000

\* The instants the clock of this part takes: the start, and the instants
\* around each multiple of the cooldown.
PlayerInstants ==
    { d * PLAYER_STATS_REFRESH_COOLDOWN_MS + e : d \in 0..MaxDays,
                                                 e \in 0..2 }

Players == 1..MaxPlayers

\* fetchPlayerSeasonStatsByTeam's answers: any list of the team's players,
\* each with appearances of 0 (every statistic is zero) or 1.
RawPlayerStats ==
    UNION { [ listed -> {0, 1} ] : listed \in SUBSET Players }

IdlePs ==
    [ pc |-> "idle", start |-> -1, prevStart |-> -1, answered |-> FALSE,
      prevAnswered |-> FALSE, calls |-> 0, toStore |-> {} ]

\* lines 257-261: updatedAt of the newest row of the key, {} if there is none
Recent(rows) ==
    { r.updatedAt : r \in { q \in rows :
                            \A o \in rows : o.updatedAt <= q.updatedAt } }

\* lines 262-263
CooldownSkips(recent, at) ==
    \E u \in recent : u >= at - PLAYER_STATS_REFRESH_COOLDOWN_MS

\* lines 274-288: players whose statistics are all zero are dropped
WithStats(raw) == { p \in DOMAIN raw : raw[p] > 0 }

\* line 248: entry; the findFirst of line 257 is issued
FetchAndStorePlayerStats ==
    /\ ps.pc = "idle"
    /\ ps' = [ IdlePs EXCEPT !.pc = "recent", !.start = nowMs,
                             !.prevStart = ps.start,
                             !.prevAnswered = ps.answered ]
    /\ UNCHANGED << now, tzOffset, fixVars, teamVars, extVars, nowMs,
                    playerSeasonStats, lineupVars, liveVars >>

\* lines 257-267: the newest row is read; within the cooldown the call
\* returns, otherwise the provider is called
RecentRead ==
    /\ ps.pc = "recent"
    /\ ps' = IF CooldownSkips(Recent(playerSeasonStats), nowMs)
             THEN [ ps EXCEPT !.pc = "idle" ]
             ELSE [ ps EXCEPT !.pc = "fetch", !.calls = @ + 1 ]
    /\ UNCHANGED << now, tzOffset, fixVars, teamVars, extVars, nowMs,
                    playerSeasonStats, lineupVars, liveVars >>

\* lines 267-288: the provider answers with a list of players
PlayerStatsAnswer(raw) ==
    /\ ps.pc = "fetch"
    /\ ps' = [ ps EXCEPT !.pc = "store", !.answered = TRUE,
                         !.toStore = WithStats(raw) ]
    /\ UNCHANGED << now, tzOffset, fixVars, teamVars, extVars, nowMs,
                    playerSeasonStats, lineupVars, liveVars >>

\* the request throws (part_006 request); lines 356-359 rethrow
PlayerStatsThrows ==
    /\ ps.pc = "fetch"
    /\ ps' = [ ps EXCEPT !.pc = "idle" ]
    /\ UNCHANGED << now, tzOffset, fixVars, teamVars, extVars, nowMs,
                    playerSeasonStats, lineupVars, liveVars >>

\* lines 330-342: the player's row is updated or created; updatedAt is set
PlayerRowStored(rows, p, at) ==
    { r \in rows : r.playerId # p } \cup
    { [ playerId |-> p, updatedAt |-> at ] }

\* lines 293-307: the Player row of the team (the home team of Part IV)
PlayerUpserted(rows, p) == rows \cup { [ teamId |-> "home", apiId |-> p ] }

\* lines 292-343: storeOne of one player of the batch
StoreOne(p) ==
    /\ ps.pc = "store"
    /\ p \in ps.toStore
    /\ player' = PlayerUpserted(player, p)
    /\ playerSeasonStats' = PlayerRowStored(playerSeasonStats, p, nowMs)
    /\ ps' = [ ps EXCEPT !.toStore = @ \ {p} ]
    /\ UNCHANGED << now, tzOffset, fixVars, teamVars, extVars, nowMs, fixtureLineup,
                    lu, liveVars >>

\* lines 349-351: storeOne rejects, the error is logged and dropped
StoreOneFails(p) ==
    /\ ps.pc = "store"
    /\ p \in ps.toStore
    /\ ps' = [ ps EXCEPT !.toStore = @ \ {p} ]
    /\ UNCHANGED << now, tzOffset, fixVars, teamVars, extVars, nowMs,
                    playerSeasonStats, lineupVars, liveVars >>

\* lines 345-355: every batch has settled
PlayerStatsReturn ==
    /\ ps.pc = "store"
    /\ ps.toStore = {}
    /\ ps' = [ ps EXCEPT !.pc = "idle" ]
    /\ UNCHANGED << now, tzOffset, fixVars, teamVars, extVars, nowMs,
                    playerSeasonStats, lineupVars, liveVars >>

\* time passes, to a later instant
PlayerTick ==
    /\ \E t \in PlayerInstants : t > nowMs /\ nowMs' = t
    /\ UNCHANGED << now, tzOffset, fixVars, teamVars, extVars, playerVars,
                    lineupVars, liveVars >>

\* =========================================================================
\* Part IV: Lineup Service
\*   ensureLineupIfWithinWindow for one fixture, one invocation at a time.
\*   The fixture has an external id: Fixture rows are only written by the
\*   Fixture Synchronizer's upsert on apiId (fixturesService.ts line 228).
\* =========================================================================

\* part_009 line 5
WINDOW_MINUTES_BEFORE_KICKOFF == 30

MsPerMinute == 60 * 1000

\* Fixture.date of the fixture
kickoffTime == KickoffHours * 60 * MsPerMinute

\* Fixture.apiId of the fixture ({} would be null)
fixtureApiId == {"f"}

Teams == {"home", "away"}

\* The instants the clock of this part takes: long before kickoff, and the
\* instants around the two ends of the fetch window.
LineupInstants ==
    {0} \cup
    { kickoffTime - WINDOW_MINUTES_BEFORE_KICKOFF * MsPerMinute + e :
        e \in -1..1 } \cup
    { kickoffTime + e : e \in -1..1 }

\* Variant of isWithinLineupFetchWindow: the window ends before kickoff.
isWithinLineupFetchWindow_Open(kickoff, at) ==
    /\ at >= kickoff - WINDOW_MINUTES_BEFORE_KICKOFF * MsPerMinute
    /\ at < kickoff

\* lines 11-14
isWithinLineupFetchWindow(kickoff, at) ==
    /\ at >= kickoff - WINDOW_MINUTES_BEFORE_KICKOFF * MsPerMinute
    /\ at <= kickoff

\* Variant of LineupExists: the stored rows are not looked at.
LineupExists_Never(rows) == FALSE

\* lines 32-35: existingCount > 0
LineupExists(rows) == Cardinality(rows) > 0

\* A team's lineup in the provider's answer: each player of the team is in
\* the starting XI, among the substitutes, or not listed.
TeamLineups == [ Players -> {"none", "starting", "substitute"} ]

\* The answer has no lineup of the team.
Absent == [ p \in Players |-> "absent" ]

\* fetchFixtureLineups' answers: for each team of the fixture its lineup or
\* none, and possibly the lineup of a team of another external id.
RawLineups ==
    [ of : [ Teams -> TeamLineups \cup {Absent} ], other : BOOLEAN ]

\* line 49: rawLineups.length === 0
NoLineups(raw) == ~raw.other /\ \A t \in Teams : raw.of[t] = Absent

\* lines 51-98: the rows of the listed players that have a Player row of
\* their team; a team that is not one of the fixture's two is passed over.
\* The findFirst calls of lines 68 and 85 read Player rows, which nothing
\* writes meanwhile.
ToCreate(raw, players) ==
    { [ teamId |-> x[1], playerId |-> x[2],
        lineupStatus |-> raw.of[x[1]][x[2]] ] :
        x \in { y \in Teams \X Players :
                  /\ raw.of[y[1]][y[2]] \in {"starting", "substitute"}
                  /\ [ teamId |-> y[1], apiId |-> y[2] ] \in players } }

\* lines 101-104: createMany with skipDuplicates on (fixture, team, player)
CreatedMany(rows, toCreate) ==
    rows \cup { t \in toCreate :
                  \A r \in rows : r.teamId # t.teamId
                                  \/ r.playerId # t.playerId }

\* dataReturned, callsAfterData and lastFetchFailed observe the fixture's
\* history: a lineup call has returned lineup data, the provider calls
\* issued after that, and whether the latest lineup fetch ended in the
\* catch block with no provider answer since.
IdleLu ==
    [ pc |-> "idle", now |-> 0, decided |-> FALSE, hadRows |-> FALSE,
      calls |-> 0, wrote |-> FALSE, toCreate |-> {},
      dataReturned |-> FALSE, callsAfterData |-> 0,
      lastFetchFailed |-> FALSE ]

\* lines 21-32: entry; now is taken and the count is issued
EnsureLineupIfWithinWindow ==
    /\ lu.pc = "idle"
    /\ lu' = [ IdleLu EXCEPT !.pc = "count", !.now = nowMs,
                             !.dataReturned = lu.dataReturned,
                             !.callsAfterData = lu.callsAfterData,
                             !.lastFetchFailed = lu.lastFetchFailed ]
    /\ UNCHANGED << now, tzOffset, fixVars, teamVars, extVars, nowMs, playerVars,
                    player, fixtureLineup, liveVars >>

\* lines 32-48: the count returns; the call ends, or the provider is called
CountRead ==
    /\ lu.pc = "count"
    /\ lu' = IF LineupExists(fixtureLineup)
             THEN [ lu EXCEPT !.pc = "idle", !.decided = TRUE,
                              !.hadRows = (fixtureLineup # {}) ]
             ELSE IF ~isWithinLineupFetchWindow(kickoffTime, lu.now)
                     \/ fixtureApiId = {}
             THEN [ lu EXCEPT !.pc = "idle", !.decided = TRUE,
                              !.hadRows = (fixtureLineup # {}) ]
             ELSE [ lu EXCEPT !.pc = "fetch", !.decided = TRUE,
                              !.hadRows = (fixtureLineup # {}),
                              !.calls = @ + 1,
                              !.callsAfterData =
                                  IF lu.dataReturned THEN 1 ELSE @ ]
    /\ UNCHANGED << now, tzOffset, fixVars, teamVars, extVars, nowMs, playerVars,
                    player, fixtureLineup, liveVars >>

\* lines 48-100: the provider answers; nothing to store ends the call
LineupsAnswer(raw) ==
    /\ lu.pc = "fetch"
    /\ lu' = IF NoLineups(raw)
             THEN [ lu EXCEPT !.pc = "idle", !.lastFetchFailed = FALSE ]
             ELSE IF ToCreate(raw, player) = {}
             THEN [ lu EXCEPT !.pc = "idle", !.dataReturned = TRUE,
                              !.lastFetchFailed = FALSE ]
             ELSE [ lu EXCEPT !.pc = "create", !.dataReturned = TRUE,
                              !.toCreate = ToCreate(raw, player),
                              !.lastFetchFailed = FALSE ]
    /\ UNCHANGED << now, tzOffset, fixVars, teamVars, extVars, nowMs, playerVars,
                    player, fixtureLineup, liveVars >>

\* the request throws (part_006 request); lines 106-108 log and return
LineupsThrow ==
    /\ lu.pc = "fetch"
    /\ lu' = [ lu EXCEPT !.pc = "idle", !.lastFetchFailed = TRUE ]
    /\ UNCHANGED << now, tzOffset, fixVars, teamVars, extVars, nowMs, playerVars,
                    player, fixtureLineup, liveVars >>

\* lines 100-105
CreateMany ==
    /\ lu.pc = "create"
    /\ fixtureLineup' = CreatedMany(fixtureLineup, lu.toCreate)
    /\ lu' = [ lu EXCEPT !.pc = "idle", !.wrote = TRUE, !.toCreate = {},
                         !.lastFetchFailed = FALSE ]
    /\ UNCHANGED << now, tzOffset, fixVars, teamVars, extVars, nowMs, playerVars,
                    player, liveVars >>

RejectedMany_Partial(rows, toCreate) == rows \cup toCreate

\* lines 101-104: createMany is one INSERT statement; when it is rejected
\* no row of it is stored.
RejectedMany(rows, toCreate) == rows

\* createMany rejects; lines 106-108 log and return
CreateManyFails ==
    /\ lu.pc = "create"
    /\ fixtureLineup' = RejectedMany(fixtureLineup, lu.toCreate)
    /\ lu' = [ lu EXCEPT !.pc = "idle", !.toCreate = {},
                         !.lastFetchFailed = TRUE ]
    /\ UNCHANGED << now, tzOffset, fixVars, teamVars, extVars, nowMs, playerVars,
                    player, liveVars >>

\* time passes, to a later instant
LineupTick ==
    /\ \E t \in LineupInstants : t > nowMs /\ nowMs' = t
    /\ UNCHANGED << now, tzOffset, fixVars, teamVars, extVars, playerVars,
                    lineupVars, liveVars >>

\* =========================================================================
\* Part V: Live Score route
\*   GET /api/fixtures/[id]/live for one stored fixture, which has an
\*   external id (see Part IV); two request handlers may overlap.  The
\*   provider's answer is fixed when the request is issued and is delivered
\*   later.  Store operations succeed.
\* =========================================================================

\* route.ts lines 5, 6 and 8
LIVE_CACHE_TTL_MS == 90 * 1000
PRE_MATCH_WINDOW_MS == 10 * MsPerMinute
MAX_MATCH_DURATION_MS == 120 * MsPerMinute

\* lines 10-11
FINISHED_STATUS == {"FT", "AET", "PEN", "ABD", "AWD", "WO", "CAN"}

\* lines 13-15
isMatchEnded(statusShort) == statusShort \in FINISHED_STATUS

Handlers == {1, 2}

\* The instants the clock of this part takes: around the start of the
\* pre-match buffer, kickoff, the cache TTL after kickoff, the end of the
\* match window and the cache TTL after that.
LiveInstants ==
    { kickoffTime - PRE_MATCH_WINDOW_MS - 1, kickoffTime - PRE_MATCH_WINDOW_MS,
      kickoffTime - 1, kickoffTime,
      kickoffTime + LIVE_CACHE_TTL_MS, kickoffTime + LIVE_CACHE_TTL_MS + 1,
      kickoffTime + MAX_MATCH_DURATION_MS,
      kickoffTime + MAX_MATCH_DURATION_MS + 1,
      kickoffTime + MAX_MATCH_DURATION_MS + LIVE_CACHE_TTL_MS + 1 }

\* ---- the provider's fixture: in play from the first request on, until the
\* final whistle
KickedOff == [ homeGoals |-> 0, statusShort |-> "1H" ]

\* part_006 lines 600-618: fetchLiveFixture's result for the fixture's state
LiveFixtureResult(m) ==
    [ homeGoals |-> m.homeGoals, awayGoals |-> 0,
      elapsedMinutes |-> IF isMatchEnded(m.statusShort) THEN {90} ELSE {45},
      statusShort |-> m.statusShort ]

NoResult ==
    [ homeGoals |-> 0, awayGoals |-> 0, elapsedMinutes |-> {},
      statusShort |-> "none" ]

\* ---- responses.  elapsedMinutes is {} for null.
NoResponse ==
    [ sent |-> FALSE, live |-> FALSE, homeGoals |-> 0, awayGoals |-> 0,
      elapsedMinutes |-> {}, statusShort |-> "none" ]

\* lines 48-51
NotStarted == [ NoResponse EXCEPT !.sent = TRUE ]

\* lines 43-46, 90-93, 152-155, 161-164, 210-213: a 0-0 with a fixed status
Placeholder(statusShort) ==
    [ sent |-> TRUE, live |-> TRUE, homeGoals |-> 0, awayGoals |-> 0,
      elapsedMinutes |-> {}, statusShort |-> statusShort ]

\* lines 62-71, 77-86, 124-133, 186-195, 199-208: a row or a result, served
Served(r) ==
    [ sent |-> TRUE, live |-> TRUE, homeGoals |-> r.homeGoals,
      awayGoals |-> r.awayGoals, elapsedMinutes |-> r.elapsedMinutes,
      statusShort |-> r.statusShort ]

\* Variant of ForcedFT: the row is served as it is stored.
ForcedFT_AsStored(row) == Served(row)

\* lines 140-151: the cached goals, the status forced to FT
ForcedFT(row) ==
    [ sent |-> TRUE, live |-> TRUE, homeGoals |-> row.homeGoals,
      awayGoals |-> row.awayGoals, elapsedMinutes |-> {},
      statusShort |-> IF isMatchEnded(row.statusShort) THEN row.statusShort
                      ELSE "FT" ]

\* lines 106-123, 167-184: the upserted row
LiveRow(result, at) ==
    [ homeGoals |-> result.homeGoals, awayGoals |-> result.awayGoals,
      elapsedMinutes |-> result.elapsedMinutes,
      statusShort |-> result.statusShort, cachedAt |-> at ]

\* calls, readCache, wroteCache, outcome and afterTerminal observe the
\* handler: its provider calls, its use of LiveScoreCache, what the provider
\* delivered, and whether it began after a terminal status had been served
\* from the provider.
IdleLv ==
    [ pc |-> "idle", now |-> -1, cached |-> {}, inflight |-> NoResult,
      response |-> NoResponse, calls |-> 0, readCache |-> FALSE,
      wroteCache |-> FALSE, outcome |-> "none", afterTerminal |-> FALSE ]

\* terminal: the first terminal result a handler got from the provider and
\* served; prevStored, lastStored: `now` of the last two handlers that stored
\* a provider result; overlapped: two handlers have run at the same time.
IdleLiveObs ==
    [ terminal |-> {}, prevStored |-> -1, lastStored |-> -1,
      overlapped |-> FALSE ]

\* Variant of PreMatch: the buffer starts after kickoff - 10 min.
PreMatch_Late(kickoff, at) == at > kickoff - PRE_MATCH_WINDOW_MS

\* lines 41-42
PreMatch(kickoff, at) == at >= kickoff - PRE_MATCH_WINDOW_MS

\* Variant of FreshCache: a row aged exactly the TTL is stale.
FreshCache_Strict(cached, at) ==
    \E row \in cached : row.cachedAt > at - LIVE_CACHE_TTL_MS

\* lines 75-76
FreshCache(cached, at) ==
    \E row \in cached : row.cachedAt >= at - LIVE_CACHE_TTL_MS

\* lines 54-56: the row findUnique returned, when there is one
TheRow(cached) == CHOOSE row \in cached : TRUE

\* line 58
cacheSaysEnded(cached) == \E row \in cached : isMatchEnded(row.statusShort)

\* Variant of duringGame: the match window never ends.
duringGame_Always(kickoff, at) == TRUE

\* lines 97-98
duringGame(kickoff, at) == at - kickoff <= MAX_MATCH_DURATION_MS

\* lines 19-27: the request arrives; the Fixture row is asked for
GetLive(h) ==
    /\ lv[h].pc = "idle"
    /\ lv' = [ lv EXCEPT ![h] =
                 [ IdleLv EXCEPT !.pc = "fixture",
                                 !.afterTerminal = (liveObs.terminal # {}) ] ]
    /\ liveObs' = [ liveObs EXCEPT
                      !.overlapped =
                          @ \/ \E o \in Handlers \ {h} : lv[o].pc # "idle" ]
    /\ UNCHANGED << now, tzOffset, fixVars, teamVars, extVars, nowMs, playerVars,
                    lineupVars, liveScoreCache, match >>

\* lines 27-54: the Fixture row is there; now is taken; before kickoff the
\* handler answers, otherwise it asks for the LiveScoreCache row
FixtureRead(h) ==
    /\ lv[h].pc = "fixture"
    /\ lv' = [ lv EXCEPT ![h] =
                 IF kickoffTime > nowMs
                 THEN [ @ EXCEPT !.pc = "idle", !.now = nowMs,
                                 !.response =
                                     IF PreMatch(kickoffTime, nowMs)
                                     THEN Placeholder("Pre")
                                     ELSE NotStarted ]
                 ELSE [ @ EXCEPT !.pc = "cache", !.now = nowMs ] ]
    /\ UNCHANGED << now, tzOffset, fixVars, teamVars, extVars, nowMs, playerVars,
                    lineupVars, liveScoreCache, match, liveObs >>

\* lines 54-159: the row is read; the handler answers from it, or issues the
\* provider request, whose answer is the fixture's state of this moment
CachedRead(h) ==
    /\ lv[h].pc = "cache"
    /\ LET cached == liveScoreCache
           at == lv[h].now
           v == [ lv[h] EXCEPT !.cached = cached, !.readCache = TRUE ]
       IN lv' = [ lv EXCEPT ![h] =
            IF cacheSaysEnded(cached) \/ FreshCache(cached, at)
            THEN [ v EXCEPT !.pc = "idle",
                            !.response = Served(TheRow(cached)) ]
            ELSE IF fixtureApiId = {}
            THEN [ v EXCEPT !.pc = "idle", !.response = Placeholder("?") ]
            ELSE IF ~duringGame(kickoffTime, at) /\ cached = {}
            THEN [ v EXCEPT !.pc = "idle", !.response = Placeholder("FT") ]
            ELSE [ v EXCEPT !.pc = IF duringGame(kickoffTime, at)
                                   THEN "fetch" ELSE "fetchLate",
                            !.calls = @ + 1,
                            !.inflight = LiveFixtureResult(match) ] ]
    /\ UNCHANGED << now, tzOffset, fixVars, teamVars, extVars, nowMs, playerVars,
                    lineupVars, liveScoreCache, match, liveObs >>

\* lines 104-105, 159-166: the provider's answer arrives.  Inside the match
\* window it is upserted; past it only a terminal one is, and otherwise the
\* cached goals are served as FT
LiveAnswers(h) ==
    /\ lv[h].pc \in {"fetch", "fetchLate"}
    /\ lv' = [ lv EXCEPT ![h] =
                 IF lv[h].pc = "fetch"
                    \/ isMatchEnded(lv[h].inflight.statusShort)
                 THEN [ @ EXCEPT !.pc = "upsert", !.outcome = "result" ]
                 ELSE [ @ EXCEPT !.pc = "idle", !.outcome = "result",
                                 !.response =
                                     ForcedFT(TheRow(lv[h].cached))
                      ] ]
    /\ UNCHANGED << now, tzOffset, fixVars, teamVars, extVars, nowMs, playerVars,
                    lineupVars, liveScoreCache, match, liveObs >>

\* part_006 line 605: the response is empty, fetchLiveFixture returns null;
\* route.ts lines 160-165, and 105 with 139-151
LiveNull(h) ==
    /\ lv[h].pc \in {"fetch", "fetchLate"}
    /\ lv' = [ lv EXCEPT ![h] =
                 [ @ EXCEPT !.pc = "idle", !.outcome = "null",
                            !.inflight = NoResult,
                            !.response =
                                IF lv[h].pc = "fetch" THEN Placeholder("?")
                                ELSE ForcedFT(TheRow(lv[h].cached))
                 ] ]
    /\ UNCHANGED << now, tzOffset, fixVars, teamVars, extVars, nowMs, playerVars,
                    lineupVars, liveScoreCache, match, liveObs >>

\* the request throws (part_006 request); route.ts lines 196-214, and
\* 135-137 with 139-151
LiveThrows(h) ==
    /\ lv[h].pc \in {"fetch", "fetchLate"}
    /\ lv' = [ lv EXCEPT ![h] =
                 [ @ EXCEPT !.pc = "idle", !.outcome = "throw",
                            !.inflight = NoResult,
                            !.response =
                                IF lv[h].pc = "fetchLate"
                                THEN ForcedFT(TheRow(lv[h].cached))
                                ELSE IF lv[h].cached = {} THEN Placeholder("?")
                                ELSE Served(TheRow(lv[h].cached))
                 ] ]
    /\ UNCHANGED << now, tzOffset, fixVars, teamVars, extVars, nowMs, playerVars,
                    lineupVars, liveScoreCache, match, liveObs >>

\* lines 106-133, 167-195: the result is upserted with cachedAt = now and
\* served
LiveUpsert(h) ==
    /\ lv[h].pc = "upsert"
    /\ liveScoreCache' = { LiveRow(lv[h].inflight, lv[h].now) }
    /\ lv' = [ lv EXCEPT ![h] =
                 [ @ EXCEPT !.pc = "idle", !.wroteCache = TRUE,
                            !.response = Served(lv[h].inflight) ] ]
    /\ liveObs' = [ liveObs EXCEPT
                      !.terminal =
                          IF @ = {} /\ isMatchEnded(lv[h].inflight.statusShort)
                          THEN { lv[h].inflight } ELSE @,
                      !.prevStored = liveObs.lastStored,
                      !.lastStored = lv[h].now ]
    /\ UNCHANGED << now, tzOffset, fixVars, teamVars, extVars, nowMs, playerVars,
                    lineupVars, match >>

\* the provider's fixture: the home team scores
MatchGoal ==
    /\ ~isMatchEnded(match.statusShort)
    /\ match.homeGoals < MaxGoals
    /\ match' = [ match EXCEPT !.homeGoals = @ + 1 ]
    /\ UNCHANGED << now, tzOffset, fixVars, teamVars, extVars, nowMs, playerVars,
                    lineupVars, liveScoreCache, lv, liveObs >>

\* the provider's fixture: the final whistle
MatchEnds ==
    /\ ~isMatchEnded(match.statusShort)
    /\ match' = [ match EXCEPT !.statusShort = "FT" ]
    /\ UNCHANGED << now, tzOffset, fixVars, teamVars, extVars, nowMs, playerVars,
                    lineupVars, liveScoreCache, lv, liveObs >>

\* time passes, to a later instant
LiveTick ==
    /\ \E t \in LiveInstants : t > nowMs /\ nowMs' = t
    /\ UNCHANGED << now, tzOffset, fixVars, teamVars, extVars, playerVars,
                    lineupVars, liveVars >>


\* ======================================================================
\* Part VI.  Per-match statistics (statsService: the season aggregation of
\* ensureTeamSeasonStatsCornersAndCards and the figures of
\* getFixtureStats).  Expected goals are counted in tenths; a quotient is
\* kept as a fraction, so two figures are equal when they cross-multiply.
\* ======================================================================

\* The longest season, in cached fixtures, and the largest xG of a fixture.
MaxRows == 3

MaxXg == 2

\* A TeamFixtureCache row: xg is {} when the provider reported none.
CacheRowValues == [ xg : { {} } \cup { {v} : v \in 0..MaxXg } ]

\* Every season of at most MaxRows cached fixtures.
CacheRowSeqs == UNION { [ 1..n -> CacheRowValues ] : n \in 0..MaxRows }

\* The value of a non-null xg.
XgOf(r) == CHOOSE v \in r.xg : TRUE

\* xgSum: the sum of the xg of the rows that report one.
RECURSIVE xgSum(_)
xgSum(rows) ==
    IF rows = << >> THEN 0
    ELSE (IF Head(rows).xg # {} THEN XgOf(Head(rows)) ELSE 0)
         + xgSum(Tail(rows))

\* xgCount: the number of rows that report an xg.
xgCount(rows) == Cardinality({ k \in 1..Len(rows) : rows[k].xg # {} })

\* xgFor of the season row: the sum, or null when no row reports an xg.
xgFor(rows) == IF xgCount(rows) > 0 THEN { xgSum(rows) } ELSE {}

\* minutesPlayed of the season row: 90 minutes for every fixture played.
minutesPlayed(played) == played * 90

\* A quotient num / den of two numbers, den > 0.
Quotient(num, den) == [ num |-> num, den |-> den ]

\* Two nullable figures are the same number.
SameFigure(a, b) ==
    \/ a = {} /\ b = {}
    \/ /\ a # {}
       /\ b # {}
       /\ \A x \in a : \A y \in b : x.num * y.den = y.num * x.den

\* rowToPerMatch: the season row's xG per match.  The divisor is the
\* number of matches played, minutesPlayed / 90.
rowToPerMatch(row) ==
    IF row = {} THEN {}
    ELSE LET r == CHOOSE x \in row : TRUE
             matches == IF r.minutesPlayed > 0
                        THEN Quotient(r.minutesPlayed, 90)
                        ELSE Quotient(0, 1)
         IN  IF matches.num <= 0 THEN {}
             ELSE IF r.xgFor # {}
                  THEN { Quotient((CHOOSE v \in r.xgFor : TRUE) * matches.den,
                                  matches.num) }
                  ELSE {}

\* last5ToPerMatch: the xG per match of the newest rows of the cache.
last5ToPerMatch(rows) ==
    IF Len(rows) = 0 THEN {}
    ELSE IF xgCount(rows) > 0
         THEN { Quotient(xgSum(rows), xgCount(rows)) }
         ELSE {}

\* No figure computed yet.
NotComputed == [ done |-> FALSE, row |-> {}, xgPer90 |-> {} ]

IdlePerMatch == [ season |-> NotComputed, last5 |-> NotComputed ]

\* The aggregation of a season whose fixtures are all cached: the season
\* row is written from the cache rows.
AggregateSeason ==
    /\ seasonRow = {}
    /\ cacheRows # << >>
    /\ seasonRow' = { [ xgFor |-> xgFor(cacheRows),
                        minutesPlayed |-> minutesPlayed(Len(cacheRows)) ] }
    /\ UNCHANGED << baseVars, statRest, cacheRows, perMatch >>

\* getFixtureStats computes the season figures of a team from its row.
SeasonPerMatch ==
    /\ ~perMatch.season.done
    /\ perMatch' = [ perMatch EXCEPT
                       !.season = [ done |-> TRUE, row |-> seasonRow,
                                    xgPer90 |-> rowToPerMatch(seasonRow) ] ]
    /\ UNCHANGED << baseVars, statRest, cacheRows, seasonRow >>

\* getFixtureStats computes the rolling form from the newest cache rows.
Last5PerMatch ==
    /\ ~perMatch.last5.done
    /\ perMatch' = [ perMatch EXCEPT
                       !.last5 = [ done |-> TRUE, row |-> {},
                                   xgPer90 |-> last5ToPerMatch(cacheRows) ] ]
    /\ UNCHANGED << baseVars, statRest, cacheRows, seasonRow >>

\* ======================================================================
\* Part VII.  One refresh of the Fixture Synchronizer, step by step
\* (fixturesService.ts, the refresh promise of lines 140-275): the league
\* answers as lists, every upsert of every fixture on its own, and the
\* marker writes with their failures.  The store is the one of Part I.
\* ======================================================================

\* The fixtures the provider knows for the day of the refresh.
RunFixtures == 2

Sides == {"home", "away"}

\* One league's answer: the fixtures of a set of numbers, in ascending order.
RECURSIVE LeagueAnswer(_, _)
LeagueAnswer(dk, ks) ==
    IF ks = {} THEN << >>
    ELSE LET k == CHOOSE x \in ks : \A y \in ks : x <= y
         IN  << RawFixture(dk, k) >> \o LeagueAnswer(dk, ks \ {k})

\* results.flat(): the answers of the leagues 1..l, one after the other.
RECURSIVE Flat(_, _)
Flat(results, l) ==
    IF l = 0 THEN << >> ELSE Flat(results, l - 1) \o results[l]

\* lines 155-161: the filter over the `seen` set keeps the first item of
\* every external id.
RECURSIVE KeepFirst(_, _)
KeepFirst(flat, seen) ==
    IF flat = << >> THEN << >>
    ELSE IF Head(flat).apiId \in seen
         THEN KeepFirst(Tail(flat), seen)
         ELSE << Head(flat) >>
              \o KeepFirst(Tail(flat), seen \cup {Head(flat).apiId})

DedupeByExternalId(flat) == KeepFirst(flat, {})

\* line 162: rawFixtures.sort by date, ascending and stable.
RECURSIVE SortByDate(_)
SortByDate(s) ==
    IF s = << >> THEN << >>
    ELSE LET i == CHOOSE x \in 1..Len(s) :
                      /\ \A y \in 1..Len(s) : s[x].date <= s[y].date
                      /\ \A y \in 1..(x - 1) : s[y].date > s[x].date
         IN  << s[i] >>
             \o SortByDate(SubSeq(s, 1, i - 1) \o SubSeq(s, i + 1, Len(s)))

IdleRun ==
    [ stage |-> "idle", dateKey |-> -1, flat |-> << >>,
      rawFixtures |-> << >>, teamsDone |-> {}, thrown |-> {},
      issued |-> {}, stored |-> {}, failed |-> {}, fetchThrew |-> FALSE,
      markers |-> << >>, returned |-> {} ]

\* The fixture's async function has ended: processed or caught.
Settled(i) == i \in run.stored \cup run.failed

\* The team id a side of a raw fixture names.
TeamOf(raw, side) == IF side = "home" THEN raw.home ELSE raw.away

\* lines 140-154: the promise starts and issues the league calls.
StartRun ==
    /\ run.stage = "idle"
    /\ run' = [ run EXCEPT !.stage = "fetching",
                           !.dateKey = getTodayDateKey(now) ]
    /\ UNCHANGED << baseVars, runRest, fixture, team, apiFetchLog >>

\* lines 150-163: Promise.all resolves; flatten, de-duplicate, sort.
RunProviderAnswers ==
    /\ run.stage = "fetching"
    /\ \E results \in [ Leagues -> { LeagueAnswer(run.dateKey, ks) :
                                       ks \in SUBSET (1..RunFixtures) } ] :
         LET flat == Flat(results, NumLeagues)
         IN  run' = [ run EXCEPT
                        !.stage = "upsert",
                        !.flat = flat,
                        !.rawFixtures = SortByDate(DedupeByExternalId(flat)) ]
    /\ UNCHANGED << baseVars, runRest, fixture, team, apiFetchLog >>

\* lines 150-154, 254-256: a league call throws; the catch takes over.
RunProviderFails ==
    /\ run.stage = "fetching"
    /\ run' = [ run EXCEPT !.stage = "faillog", !.fetchThrew = TRUE ]
    /\ UNCHANGED << baseVars, runRest, fixture, team, apiFetchLog >>

\* lines 187-216: one of the two team upserts of fixture i completes.  The
\* two are issued together; the one still in flight when the other threw
\* completes later.
UpsertTeam(i, side) ==
    /\ run.stage \notin {"idle", "fetching"}
    /\ i \in 1..Len(run.rawFixtures)
    /\ i \notin run.issued
    /\ << i, side >> \notin run.teamsDone \cup run.thrown
    /\ run.stage # "upsert" => i \in run.failed
    /\ team' = team \cup { TeamOf(run.rawFixtures[i], side) }
    /\ run' = [ run EXCEPT !.teamsDone = @ \cup { << i, side >> } ]
    /\ UNCHANGED << baseVars, runRest, fixture, apiFetchLog >>

\* lines 187-216, 238-241: a team upsert of fixture i throws; Promise.all
\* rejects and the fixture's catch counts the error.
UpsertTeamFails(i, side) ==
    /\ run.stage = "upsert"
    /\ i \in 1..Len(run.rawFixtures)
    /\ ~Settled(i)
    /\ i \notin run.issued
    /\ << i, side >> \notin run.teamsDone
    /\ run' = [ run EXCEPT !.thrown = @ \cup { << i, side >> },
                           !.failed = @ \cup {i} ]
    /\ UNCHANGED << baseVars, runRest, fixture, team, apiFetchLog >>

TeamsUpserted_Any(i) == TRUE

\* line 187: the await of Promise.all has returned both team rows.
TeamsUpserted(i) == \A side \in Sides : << i, side >> \in run.teamsDone

\* lines 218-237: the fixture upsert of fixture i.
UpsertFixtureAt(i) ==
    /\ run.stage = "upsert"
    /\ i \in 1..Len(run.rawFixtures)
    /\ ~Settled(i)
    /\ TeamsUpserted(i)
    /\ fixture' = FixtureUpserted(fixture, run.rawFixtures[i])
    /\ run' = [ run EXCEPT !.issued = @ \cup {i}, !.stored = @ \cup {i} ]
    /\ UNCHANGED << baseVars, runRest, team, apiFetchLog >>

\* lines 229-241: the fixture upsert of fixture i throws.
UpsertFixtureFails(i) ==
    /\ run.stage = "upsert"
    /\ i \in 1..Len(run.rawFixtures)
    /\ ~Settled(i)
    /\ TeamsUpserted(i)
    /\ run' = [ run EXCEPT !.issued = @ \cup {i}, !.failed = @ \cup {i} ]
    /\ UNCHANGED << baseVars, runRest, fixture, team, apiFetchLog >>

\* Promise.allSettled of the batch has returned.
BatchSettled == \A i \in 1..Len(run.rawFixtures) : Settled(i)

RunMarker(success) ==
    [ resource |-> FixturesResource(run.dateKey), success |-> success,
      fetchedAt |-> now ]

\* lines 246-253: the success marker is created.
RunSuccessLog ==
    /\ run.stage = "upsert"
    /\ BatchSettled
    /\ apiFetchLog' = apiFetchLog \cup { RunMarker(TRUE) }
    /\ run' = [ run EXCEPT !.stage = "reread",
                           !.markers = Append(@, TRUE) ]
    /\ UNCHANGED << baseVars, runRest, fixture, team >>

\* lines 246-256: the create of the success marker throws inside the try;
\* the catch block takes over.
RunSuccessLogFails ==
    /\ run.stage = "upsert"
    /\ BatchSettled
    /\ run' = [ run EXCEPT !.stage = "faillog" ]
    /\ UNCHANGED << baseVars, runRest, fixture, team, apiFetchLog >>

\* lines 254-261: the failure marker is created.
RunFailureLog ==
    /\ run.stage = "faillog"
    /\ apiFetchLog' = apiFetchLog \cup { RunMarker(FALSE) }
    /\ run' = [ run EXCEPT !.stage = "reread",
                           !.markers = Append(@, FALSE) ]
    /\ UNCHANGED << baseVars, runRest, fixture, team >>

\* lines 258-264: the create of the failure marker throws; it is logged.
RunFailureLogFails ==
    /\ run.stage = "faillog"
    /\ run' = [ run EXCEPT !.stage = "reread" ]
    /\ UNCHANGED << baseVars, runRest, fixture, team, apiFetchLog >>

\* lines 267-274: the rows of the day are re-read and returned.
RunReread ==
    /\ run.stage = "reread"
    /\ run' = [ run EXCEPT !.stage = "done",
                           !.returned = { InDay(fixture, run.dateKey) } ]
    /\ UNCHANGED << baseVars, runRest, fixture, team, apiFetchLog >>

\* ======================================================================
\* Part VIII.  External Provider Client (footballApi: request, requestPage
\* and the endpoint wrappers).  A reply is the HTTP status, the `errors`
\* member and the `response` member of the body.  An error text is kept by
\* what the client looks for in it: whether it contains "plan" (which
\* "free plan" contains too) and whether it contains "do not have access".
\* ======================================================================

\* The `errors` member: [] ("none"), {} ("emptyObject"), a non-empty
\* string, or an object with one key and a text value.
ErrorShapes ==
    [ shape : {"none", "emptyObject"}, key : {"none"},
      plan : {FALSE}, noAccess : {FALSE} ]
    \cup [ shape : {"string"}, key : {"none"},
           plan : BOOLEAN, noAccess : BOOLEAN ]
    \cup [ shape : {"object"}, key : {"plan", "other"},
           plan : BOOLEAN, noAccess : BOOLEAN ]

Replies ==
    [ ok : BOOLEAN, errors : ErrorShapes, response : {"empty", "data"} ]

Endpoints ==
    { "teams", "fixturesByDate", "players", "teamFixtures",
      "fixtureStatistics", "fixtureById", "lineups" }

\* The outcome of a call: what it threw, whether fetch() was called, and
\* the value returned ("empty" is [], null or zero totals).
Threw(kind, fetched) == [ threw |-> kind, fetched |-> fetched, value |-> "none" ]

Returned(value) == [ threw |-> "none", fetched |-> TRUE, value |-> value ]

\* lines 121-128: errors: {} and empty strings are no errors.
hasRealErrors(e) == e.shape \in {"string", "object"}

\* lines 131-139: the message is the string, e.plan, e.message or the
\* JSON of the item; a plan limitation is a message that contains
\* "free plan", "plan" or "do not have access".
isPlanLimitation(e) == e.plan \/ e.noAccess

\* lines 91-153.
request(configured, reply) ==
    IF ~configured THEN Threw("config", FALSE)
    ELSE IF ~reply.ok THEN Threw("http", TRUE)
    ELSE IF hasRealErrors(reply.errors)
         THEN IF isPlanLimitation(reply.errors)
              THEN Returned("empty")
              ELSE Threw("api", TRUE)
         ELSE Returned(reply.response)

\* lines 175-179: every item of errorsArray counts; the message is the
\* string or the JSON of the item, key included, and only "plan" is
\* looked for.
pageIsPlanLimitation(e) == e.plan \/ e.key = "plan"

\* lines 156-187.
requestPage(configured, reply) ==
    IF ~configured THEN Threw("config", FALSE)
    ELSE IF ~reply.ok THEN Threw("http", TRUE)
    ELSE IF reply.errors.shape # "none"
         THEN IF pageIsPlanLimitation(reply.errors)
              THEN Returned("empty")
              ELSE Threw("api", TRUE)
         ELSE Returned(reply.response)

\* lines 497-500, 570-574: the wrapper's catch returns the empty answer.
Caught(outcome) ==
    IF outcome.threw # "none"
    THEN [ threw |-> "none", fetched |-> outcome.fetched, value |-> "empty" ]
    ELSE outcome

\* lines 203-210, 216-256, 600-605, 648-656: the wrappers of /teams,
\* /fixtures?date, /fixtures?id and /fixtures/lineups await request();
\* lines 317-361: the wrapper of /players awaits requestPage();
\* lines 448-501, 517-575: the wrappers of /fixtures?team and
\* /fixtures/statistics await request() inside try/catch.
Wrapper(endpoint, configured, reply) ==
    CASE endpoint = "players" -> requestPage(configured, reply)
      [] endpoint \in {"teamFixtures", "fixtureStatistics"} ->
             Caught(request(configured, reply))
      [] OTHER -> request(configured, reply)

IdleReply ==
    [ ok |-> TRUE,
      errors |-> [ shape |-> "none", key |-> "none", plan |-> FALSE,
                   noAccess |-> FALSE ],
      response |-> "empty" ]

IdleClient ==
    [ configured |-> TRUE, reply |-> IdleReply, endpoint |-> "none",
      outcome |-> Threw("none", FALSE) ]

\* An engine operation calls the wrapper of an endpoint.
CallEndpoint(endpoint) ==
    /\ client.endpoint = "none"
    /\ client' = [ client EXCEPT
                     !.endpoint = endpoint,
                     !.outcome = Wrapper(endpoint, client.configured,
                                         client.reply) ]
    /\ UNCHANGED << baseVars, clientRest >>

\* ======================================================================
\* Part IX.  Two concurrent invocations of fetchAndStorePlayerStats for the
\* same (team, season, league) that received the same answer of the
\* provider (statsService, storeOne of lines 292-343 and the batch of
\* lines 345-354; the unique indexes of the init migration).  Every
\* storeOne of each invocation is a process of its own: the Player upsert,
\* the findFirst, then the update or the create.
\* ======================================================================

Writers == {1, 2}

\* No storeOne is running.
IdleWr ==
    [ answer |-> << >>,
      pc |-> [ w \in Writers |-> [ p \in Players |-> "none" ] ],
      existing |-> [ w \in Writers |-> [ p \in Players |-> {} ] ] ]

\* The row a storeOne of player p writes: the statistics of the answer.
StatsData(p) == wr.answer[p]

UniqueKeyTaken_NoIndex(rows, p) == FALSE

\* PlayerSeasonStats_playerId_teamId_season_league_key: the unique index
\* rejects an insert whose key a row already has.
UniqueKeyTaken(rows, p) == \E r \in rows : r.playerId = p

\* The id the next inserted row gets (autoincrement).
NextId(rows) ==
    IF rows = {} THEN 1
    ELSE 1 + (CHOOSE m \in { r.id : r \in rows } :
                 \A r \in rows : r.id <= m)

\* lines 293-307: prisma.player.upsert by apiId.
WriterUpsertPlayer(w, p) ==
    /\ wr.pc[w][p] = "upsert"
    /\ player' = PlayerUpserted(player, p)
    /\ wr' = [ wr EXCEPT !.pc[w][p] = "find" ]
    /\ UNCHANGED << writerRest, pssTable >>

\* lines 310-317: findFirst by (playerId, teamId, season, league).
WriterFindFirst(w, p) ==
    /\ wr.pc[w][p] = "find"
    /\ wr' = [ wr EXCEPT
                 !.pc[w][p] = "write",
                 !.existing[w][p] =
                     IF \E r \in pssTable : r.playerId = p
                     THEN { CHOOSE i \in { r.id : r \in pssTable } :
                              \E r \in pssTable :
                                  /\ r.id = i
                                  /\ r.playerId = p
                                  /\ \A q \in pssTable :
                                         q.playerId = p => r.id <= q.id }
                     ELSE {} ]
    /\ UNCHANGED << writerRest, player, pssTable >>

\* lines 330-331: the row found is updated by its id.
WriterUpdate(w, p) ==
    /\ wr.pc[w][p] = "write"
    /\ wr.existing[w][p] # {}
    /\ pssTable' =
         { IF r.id \in wr.existing[w][p]
           THEN [ r EXCEPT !.data = StatsData(p) ]
           ELSE r : r \in pssTable }
    /\ wr' = [ wr EXCEPT !.pc[w][p] = "done" ]
    /\ UNCHANGED << writerRest, player >>

\* lines 332-342: no row was found and the create inserts one.
WriterCreate(w, p) ==
    /\ wr.pc[w][p] = "write"
    /\ wr.existing[w][p] = {}
    /\ ~UniqueKeyTaken(pssTable, p)
    /\ pssTable' = pssTable \cup
         { [ id |-> NextId(pssTable), playerId |-> p,
             data |-> StatsData(p) ] }
    /\ wr' = [ wr EXCEPT !.pc[w][p] = "done" ]
    /\ UNCHANGED << writerRest, player >>

\* lines 332-342, 347-351: no row was found, but the key has been taken
\* since; the create throws the unique-constraint error, which the catch
\* of the batch logs and drops.
WriterCreateRejected(w, p) ==
    /\ wr.pc[w][p] = "write"
    /\ wr.existing[w][p] = {}
    /\ UniqueKeyTaken(pssTable, p)
    /\ wr' = [ wr EXCEPT !.pc[w][p] = "rejected" ]
    /\ UNCHANGED << writerRest, player, pssTable >>

\* =========================================================================
\* Part X: the warm driver script (src/unnamed/part_004)
\* =========================================================================

\* The driver issues at most this many requests in the runs explored.
MaxWarmRequests == 8

\* const MAX_RETRIES = 3 (line 19): attempts after the first, per fixture
MAX_RETRIES == 1

\* stepRetries = 2 (line 56): retries of a failed teamstats request
StepRetries == 1

\* lines 2, 82-126: the steps of a fixture, in the order of warmOneFixture
Steps == << "home", "away", "teamstats-home", "teamstats-away", "lineup",
            "stats" >>

TeamStatsSteps == { 3, 4 }

\* FetchResult (line 26): ok, and for a parsed body its done field;
\* "none" is a body without done or one that did not parse (lines 40-45).
FetchResults == [ ok : {TRUE}, done : {"true", "false", "none"} ]
                    \cup [ ok : {FALSE}, done : {"none"} ]

\* What the driver leaves alone: it talks to the application over HTTP.
warmRest == << now, tzOffset, fixVars, teamVars, nowMs, playerVars,
               lineupVars, liveVars, statVars, run, client, wr, pssTable,
               clr >>

\* lines 82-85: the plain steps do not parse the body (parseJson false).
PlainResults == { res \in FetchResults : res.done = "none" }

IdleWarm ==
    [ pc |-> "idle", step |-> 0, attempt |-> 0, retry |-> 0,
      requested |-> << >>, replies |-> << >>, result |-> "none" ]

\* Variant of StepDone: a teamstats step is over only when done is true.
StepDone_OnlyTrue(res) == res.done = "true"

\* line 68: res.data?.done !== false
StepDone(res) == res.done # "false"

\* A request of the current step is sent (fetchWithTimeout, lines 28-51).
Requested(w, step) ==
    [ w EXCEPT !.pc = "await", !.step = step,
               !.requested = Append(@, Steps[step]) ]

\* lines 163-169, 82-85: an attempt of the fixture begins with the request
\* of part home.
WarmOneFixture ==
    /\ warm.pc = "idle"
    /\ warm.result # "ok"
    /\ warm.attempt <= MAX_RETRIES
    /\ Len(warm.requested) < MaxWarmRequests
    /\ warm' = Requested([ IdleWarm EXCEPT !.attempt = warm.attempt ], 1)
    /\ UNCHANGED warmRest

\* The attempt is over: warmOneFixture returns (lines 86-87, 95-96, 100,
\* 104, 111-112, 121-125) and main counts it (lines 170-181).
AttemptEnds(w, ok) ==
    [ w EXCEPT !.pc = "idle", !.attempt = @ + 1,
               !.result = IF ok THEN "ok" ELSE "failed" ]

\* lines 82-126 without the teamstats steps: the reply to a plain request.
\* A failure ends the attempt, a success sends the next step's request or,
\* after stats, ends the attempt.
PlainReply(res) ==
    /\ warm.pc = "await"
    /\ warm.step \notin TeamStatsSteps
    /\ warm.step = Len(Steps) \/ ~res.ok
           \/ Len(warm.requested) < MaxWarmRequests
    /\ LET w == [ warm EXCEPT !.replies = Append(@, res) ]
       IN  warm' = IF ~res.ok THEN AttemptEnds(w, FALSE)
                   ELSE IF warm.step = Len(Steps) THEN AttemptEnds(w, TRUE)
                   ELSE Requested(w, warm.step + 1)
    /\ UNCHANGED warmRest

\* warmTeamStatsUntilDone, lines 53-77: the reply to a teamstats request.
\* A failed request is retried stepRetries times and then fails the step;
\* an answer with done false sends the request again, with the retries
\* counted anew; any other answer ends the step.
TeamStatsReply(res) ==
    /\ warm.pc = "await"
    /\ warm.step \in TeamStatsSteps
    /\ ( ~res.ok /\ warm.retry >= StepRetries )
           \/ Len(warm.requested) < MaxWarmRequests
    /\ LET w == [ warm EXCEPT !.replies = Append(@, res) ]
       IN  warm' =
             IF res.ok
             THEN IF StepDone(res)
                  THEN Requested([ w EXCEPT !.retry = 0 ], warm.step + 1)
                  ELSE Requested([ w EXCEPT !.retry = 0 ], warm.step)
             ELSE IF warm.retry < StepRetries
                  THEN Requested([ w EXCEPT !.retry = @ + 1 ], warm.step)
                  ELSE AttemptEnds([ w EXCEPT !.retry = 0 ], FALSE)
    /\ UNCHANGED warmRest

\* lines 159-185: main goes on to the next fixture once this one succeeded
\* or its attempts are used up.
NextFixture ==
    /\ warm.pc = "idle"
    /\ warm.result = "ok" \/ ( warm.result = "failed" /\ warm.attempt > MAX_RETRIES )
    /\ warm' = IdleWarm
    /\ UNCHANGED warmRest

\* =========================================================================
\* Part XI: forced refresh (fixturesService.ts clearTodayFixturesCacheAndData)
\* =========================================================================

\* Clears in the runs explored.
MaxClears == 1

IdleClr ==
    [ pc |-> "idle", dateKey |-> 0, count |-> 0, callsAt |-> 0,
      fetchCallsAt |-> 0, busy |-> {} ]

\* The clear has completed at least once and none is running.
Cleared == clr.pc = "idle" /\ clr.count > 0

\* line 81: fixture.deleteMany({date: {gte: dayStart, lte: dayEnd}})
ClearedFixtures(rows, dk) == rows \ InDay(rows, dk)

\* lines 74-78: the day key is computed and the global is cleared, up to
\* the await of the transaction.
ClearStart ==
    /\ clr.pc = "idle"
    /\ clr.count < MaxClears
    /\ clr' = [ clr EXCEPT !.pc = "delete", !.dateKey = getTodayDateKey(now) ]
    /\ todayFixturesPromise' = NoPromise
    /\ refresh' = Collected(refresh, NoPromise)
    /\ UNCHANGED << now, tzOffset, fixture, team, apiFetchLog, pc, dateKey,
                    existingFixtures, lastFetchLog, awaiting, lastReturn,
                    fetchCalls, fetchesThisInstant, calls, teamVars, nowMs,
                    playerVars, lineupVars, liveVars, statVars, run, client,
                    wr, pssTable, warm >>

\* lines 80-85: the transaction commits and the function returns.  The
\* calls and provider fetches made so far and the callers inside a call are
\* noted.
ClearCommit ==
    /\ clr.pc = "delete"
    /\ fixture' = ClearedFixtures(fixture, clr.dateKey)
    /\ apiFetchLog' = LogsAfterClear(clr.dateKey)
    /\ clr' = [ clr EXCEPT !.pc = "idle", !.count = @ + 1,
                           !.callsAt = calls,
                           !.fetchCallsAt = fetchCalls,
                           !.busy = { c \in Callers : pc[c] # "idle" } ]
    /\ UNCHANGED << now, tzOffset, team, todayFixturesPromise, pc, dateKey,
                    existingFixtures, lastFetchLog, awaiting, lastReturn,
                    refresh, fetchCalls, fetchesThisInstant, calls, teamVars,
                    nowMs, playerVars, lineupVars, liveVars, statVars, run,
                    client, wr, pssTable, warm >>
\* =========================================================================
\* Specifications
\* =========================================================================

\* The Fixture Synchronizer on an empty store, an hour before midnight UTC,
\* in winter or in summer time; the aggregator is not invoked.
InitFix ==
    /\ now = ClockStart
    /\ tzOffset \in {0, 1}
    /\ fixture = {}
    /\ team = {}
    /\ apiFetchLog = {}
    /\ todayFixturesPromise = NoPromise
    /\ pc = [ c \in Callers |-> "idle" ]
    /\ dateKey = [ c \in Callers |-> 0 ]
    /\ existingFixtures = [ c \in Callers |-> {} ]
    /\ lastFetchLog = [ c \in Callers |-> NoLog ]
    /\ awaiting = [ c \in Callers |-> 0 ]
    /\ lastReturn = NoReturn
    /\ refresh = [ c \in Callers |-> NoRefresh ]
    /\ fetchCalls = 0
    /\ fetchesThisInstant = 0
    /\ calls = 0
    /\ teamFixtureCache = {}
    /\ teamSeasonStats = {}
    /\ inv = IdleInv
    /\ prov = IdleProv
    /\ obs = IdleObs
    /\ nowMs = 0
    /\ playerSeasonStats = {}
    /\ ps = IdlePs
    /\ player = {}
    /\ fixtureLineup = {}
    /\ lu = IdleLu
    /\ liveScoreCache = {}
    /\ match = KickedOff
    /\ lv = [ h \in Handlers |-> IdleLv ]
    /\ liveObs = IdleLiveObs
    /\ cacheRows = << >>
    /\ seasonRow = {}
    /\ perMatch = IdlePerMatch
    /\ run = IdleRun
    /\ client = IdleClient
    /\ wr = IdleWr
    /\ pssTable = {}
    /\ warm = IdleWarm
    /\ clr = IdleClr

\* The aggregator on an empty store: any season length and any chunk size;
\* any request may fail.  The Fixture Synchronizer is not called.
InitTeam ==
    /\ now = ClockStart
    /\ tzOffset = 0
    /\ fixture = {}
    /\ team = {}
    /\ apiFetchLog = {}
    /\ todayFixturesPromise = NoPromise
    /\ pc = [ c \in Callers |-> "idle" ]
    /\ dateKey = [ c \in Callers |-> 0 ]
    /\ existingFixtures = [ c \in Callers |-> {} ]
    /\ lastFetchLog = [ c \in Callers |-> NoLog ]
    /\ awaiting = [ c \in Callers |-> 0 ]
    /\ lastReturn = NoReturn
    /\ refresh = [ c \in Callers |-> NoRefresh ]
    /\ fetchCalls = 0
    /\ fetchesThisInstant = 0
    /\ calls = 0
    /\ teamFixtureCache = {}
    /\ teamSeasonStats = {}
    /\ inv = IdleInv
    /\ prov \in [ seasonLen : 0..MaxSeason, chunk : 1..MaxBudget,
                  flaky : {TRUE}, noStats : {{}} ]
    /\ obs = IdleObs
    /\ nowMs = 0
    /\ playerSeasonStats = {}
    /\ ps = IdlePs
    /\ player = {}
    /\ fixtureLineup = {}
    /\ lu = IdleLu
    /\ liveScoreCache = {}
    /\ match = KickedOff
    /\ lv = [ h \in Handlers |-> IdleLv ]
    /\ liveObs = IdleLiveObs
    /\ cacheRows = << >>
    /\ seasonRow = {}
    /\ perMatch = IdlePerMatch
    /\ run = IdleRun
    /\ client = IdleClient
    /\ wr = IdleWr
    /\ pssTable = {}
    /\ warm = IdleWarm
    /\ clr = IdleClr

\* The aggregator under the warm driver: any season, of some fixtures of
\* which the provider has no statistics, for good; no request fails otherwise.
InitConverge ==
    /\ now = ClockStart
    /\ tzOffset = 0
    /\ fixture = {}
    /\ team = {}
    /\ apiFetchLog = {}
    /\ todayFixturesPromise = NoPromise
    /\ pc = [ c \in Callers |-> "idle" ]
    /\ dateKey = [ c \in Callers |-> 0 ]
    /\ existingFixtures = [ c \in Callers |-> {} ]
    /\ lastFetchLog = [ c \in Callers |-> NoLog ]
    /\ awaiting = [ c \in Callers |-> 0 ]
    /\ lastReturn = NoReturn
    /\ refresh = [ c \in Callers |-> NoRefresh ]
    /\ fetchCalls = 0
    /\ fetchesThisInstant = 0
    /\ calls = 0
    /\ teamFixtureCache = {}
    /\ teamSeasonStats = {}
    /\ inv = IdleInv
    /\ \E n \in 0..MaxSeason, b \in 1..MaxBudget : \E none \in SUBSET (1..n) :
          prov = [ seasonLen |-> n, chunk |-> b, flaky |-> FALSE,
                   noStats |-> none ]
    /\ obs = IdleObs
    /\ nowMs = 0
    /\ playerSeasonStats = {}
    /\ ps = IdlePs
    /\ player = {}
    /\ fixtureLineup = {}
    /\ lu = IdleLu
    /\ liveScoreCache = {}
    /\ match = KickedOff
    /\ lv = [ h \in Handlers |-> IdleLv ]
    /\ liveObs = IdleLiveObs
    /\ cacheRows = << >>
    /\ seasonRow = {}
    /\ perMatch = IdlePerMatch
    /\ run = IdleRun
    /\ client = IdleClient
    /\ wr = IdleWr
    /\ pssTable = {}
    /\ warm = IdleWarm
    /\ clr = IdleClr

NextFix ==
    \/ \E c \in Callers : Call(c)
    \/ \E c \in Callers : Prune(c)
    \/ \E c \in Callers : Read(c)
    \/ \E c \in Callers : ClearLog(c)
    \/ \E c \in Callers : DecideAfterClear(c)
    \/ \E p \in Callers : ProviderAnswers(p)
    \/ \E p \in Callers : ProviderFails(p)
    \/ \E p \in Callers : \E r \in refresh[p].raw : UpsertTeams(p, r)
    \/ \E p \in Callers : \E r \in refresh[p].raw : UpsertFixture(p, r)
    \/ \E p \in Callers : \E r \in refresh[p].raw : UpsertError(p, r)
    \/ \E p \in Callers : WriteSuccessLog(p)
    \/ \E p \in Callers : WriteFailureLog(p)
    \/ \E p \in Callers : Resolve(p)
    \/ Tick

SpecFix == InitFix /\ [][NextFix]_vars

NextTeam ==
    \/ WarmFixturePart
    \/ GetFixtureStats
    \/ ListAnswers
    \/ ListFails
    \/ CacheRead
    \/ StatAnswers
    \/ StatNull
    \/ CacheUpsert
    \/ AggRead
    \/ SeasonUpsert
    \/ LogCreate
    \/ \E applied \in BOOLEAN : CutOff(applied)

SpecTeam == InitTeam /\ [][NextTeam]_vars

\* The warm driver alone: it re-invokes until done, nothing cuts it off, and
\* every step that can be taken eventually is.
NextConverge ==
    \/ DriverInvoke
    \/ ListAnswers
    \/ CacheRead
    \/ StatAnswers
    \/ StatNull
    \/ CacheUpsert
    \/ AggRead
    \/ SeasonUpsert
    \/ LogCreate

SpecConverge == InitConverge /\ [][NextConverge]_vars /\ WF_vars(NextConverge)


\* The Player Stats Refresher on a store without PlayerSeasonStats rows of
\* the key; the other services are not called.
InitPlayer ==
    /\ now = ClockStart
    /\ tzOffset = 0
    /\ fixture = {}
    /\ team = {}
    /\ apiFetchLog = {}
    /\ todayFixturesPromise = NoPromise
    /\ pc = [ c \in Callers |-> "idle" ]
    /\ dateKey = [ c \in Callers |-> 0 ]
    /\ existingFixtures = [ c \in Callers |-> {} ]
    /\ lastFetchLog = [ c \in Callers |-> NoLog ]
    /\ awaiting = [ c \in Callers |-> 0 ]
    /\ lastReturn = NoReturn
    /\ refresh = [ c \in Callers |-> NoRefresh ]
    /\ fetchCalls = 0
    /\ fetchesThisInstant = 0
    /\ calls = 0
    /\ teamFixtureCache = {}
    /\ teamSeasonStats = {}
    /\ inv = IdleInv
    /\ prov = IdleProv
    /\ obs = IdleObs
    /\ nowMs = 0
    /\ playerSeasonStats = {}
    /\ ps = IdlePs
    /\ player = {}
    /\ fixtureLineup = {}
    /\ lu = IdleLu
    /\ liveScoreCache = {}
    /\ match = KickedOff
    /\ lv = [ h \in Handlers |-> IdleLv ]
    /\ liveObs = IdleLiveObs
    /\ cacheRows = << >>
    /\ seasonRow = {}
    /\ perMatch = IdlePerMatch
    /\ run = IdleRun
    /\ client = IdleClient
    /\ wr = IdleWr
    /\ pssTable = {}
    /\ warm = IdleWarm
    /\ clr = IdleClr

NextPlayer ==
    \/ FetchAndStorePlayerStats
    \/ RecentRead
    \/ \E raw \in RawPlayerStats : PlayerStatsAnswer(raw)
    \/ PlayerStatsThrows
    \/ \E p \in Players : StoreOne(p)
    \/ \E p \in Players : StoreOneFails(p)
    \/ PlayerStatsReturn
    \/ PlayerTick

SpecPlayer == InitPlayer /\ [][NextPlayer]_vars

\* The Lineup Service long before kickoff, no FixtureLineup row stored, any
\* of the players having a Player row; the other services are not called.
InitLineup ==
    /\ now = ClockStart
    /\ tzOffset = 0
    /\ fixture = {}
    /\ team = {}
    /\ apiFetchLog = {}
    /\ todayFixturesPromise = NoPromise
    /\ pc = [ c \in Callers |-> "idle" ]
    /\ dateKey = [ c \in Callers |-> 0 ]
    /\ existingFixtures = [ c \in Callers |-> {} ]
    /\ lastFetchLog = [ c \in Callers |-> NoLog ]
    /\ awaiting = [ c \in Callers |-> 0 ]
    /\ lastReturn = NoReturn
    /\ refresh = [ c \in Callers |-> NoRefresh ]
    /\ fetchCalls = 0
    /\ fetchesThisInstant = 0
    /\ calls = 0
    /\ teamFixtureCache = {}
    /\ teamSeasonStats = {}
    /\ inv = IdleInv
    /\ prov = IdleProv
    /\ obs = IdleObs
    /\ nowMs = 0
    /\ playerSeasonStats = {}
    /\ ps = IdlePs
    /\ player \in SUBSET [ teamId : Teams, apiId : Players ]
    /\ fixtureLineup = {}
    /\ lu = IdleLu
    /\ liveScoreCache = {}
    /\ match = KickedOff
    /\ lv = [ h \in Handlers |-> IdleLv ]
    /\ liveObs = IdleLiveObs
    /\ cacheRows = << >>
    /\ seasonRow = {}
    /\ perMatch = IdlePerMatch
    /\ run = IdleRun
    /\ client = IdleClient
    /\ wr = IdleWr
    /\ pssTable = {}
    /\ warm = IdleWarm
    /\ clr = IdleClr

NextLineup ==
    \/ EnsureLineupIfWithinWindow
    \/ CountRead
    \/ \E raw \in RawLineups : LineupsAnswer(raw)
    \/ LineupsThrow
    \/ CreateMany
    \/ CreateManyFails
    \/ LineupTick

SpecLineup == InitLineup /\ [][NextLineup]_vars

\* The live route before the pre-match buffer of the fixture, no
\* LiveScoreCache row stored; the other services are not called.
InitLive ==
    /\ now = ClockStart
    /\ tzOffset = 0
    /\ fixture = {}
    /\ team = {}
    /\ apiFetchLog = {}
    /\ todayFixturesPromise = NoPromise
    /\ pc = [ c \in Callers |-> "idle" ]
    /\ dateKey = [ c \in Callers |-> 0 ]
    /\ existingFixtures = [ c \in Callers |-> {} ]
    /\ lastFetchLog = [ c \in Callers |-> NoLog ]
    /\ awaiting = [ c \in Callers |-> 0 ]
    /\ lastReturn = NoReturn
    /\ refresh = [ c \in Callers |-> NoRefresh ]
    /\ fetchCalls = 0
    /\ fetchesThisInstant = 0
    /\ calls = 0
    /\ teamFixtureCache = {}
    /\ teamSeasonStats = {}
    /\ inv = IdleInv
    /\ prov = IdleProv
    /\ obs = IdleObs
    /\ nowMs = kickoffTime - PRE_MATCH_WINDOW_MS - 1
    /\ playerSeasonStats = {}
    /\ ps = IdlePs
    /\ player = {}
    /\ fixtureLineup = {}
    /\ lu = IdleLu
    /\ liveScoreCache = {}
    /\ match = KickedOff
    /\ lv = [ h \in Handlers |-> IdleLv ]
    /\ liveObs = IdleLiveObs
    /\ cacheRows = << >>
    /\ seasonRow = {}
    /\ perMatch = IdlePerMatch
    /\ run = IdleRun
    /\ client = IdleClient
    /\ wr = IdleWr
    /\ pssTable = {}
    /\ warm = IdleWarm
    /\ clr = IdleClr

NextLive ==
    \/ \E h \in Handlers : GetLive(h)
    \/ \E h \in Handlers : FixtureRead(h)
    \/ \E h \in Handlers : CachedRead(h)
    \/ \E h \in Handlers : LiveAnswers(h)
    \/ \E h \in Handlers : LiveNull(h)
    \/ \E h \in Handlers : LiveThrows(h)
    \/ \E h \in Handlers : LiveUpsert(h)
    \/ MatchGoal
    \/ MatchEnds
    \/ LiveTick

SpecLive == InitLive /\ [][NextLive]_vars

\* --------------------------------------------------------------------
\* The per-match statistics: any season of cached fixtures, aggregated and
\* read through the fixture statistics response.
InitStat ==
    /\ now = ClockStart
    /\ tzOffset = 0
    /\ fixture = {}
    /\ team = {}
    /\ apiFetchLog = {}
    /\ todayFixturesPromise = NoPromise
    /\ pc = [ c \in Callers |-> "idle" ]
    /\ dateKey = [ c \in Callers |-> 0 ]
    /\ existingFixtures = [ c \in Callers |-> {} ]
    /\ lastFetchLog = [ c \in Callers |-> NoLog ]
    /\ awaiting = [ c \in Callers |-> 0 ]
    /\ lastReturn = NoReturn
    /\ refresh = [ c \in Callers |-> NoRefresh ]
    /\ fetchCalls = 0
    /\ fetchesThisInstant = 0
    /\ calls = 0
    /\ teamFixtureCache = {}
    /\ teamSeasonStats = {}
    /\ inv = IdleInv
    /\ prov = IdleProv
    /\ obs = IdleObs
    /\ nowMs = 0
    /\ playerSeasonStats = {}
    /\ ps = IdlePs
    /\ player = {}
    /\ fixtureLineup = {}
    /\ lu = IdleLu
    /\ liveScoreCache = {}
    /\ match = KickedOff
    /\ lv = [ h \in Handlers |-> IdleLv ]
    /\ liveObs = IdleLiveObs
    /\ cacheRows \in CacheRowSeqs
    /\ seasonRow = {}
    /\ perMatch = IdlePerMatch
    /\ run = IdleRun
    /\ client = IdleClient
    /\ wr = IdleWr
    /\ pssTable = {}
    /\ warm = IdleWarm
    /\ clr = IdleClr

NextStat ==
    \/ AggregateSeason
    \/ SeasonPerMatch
    \/ Last5PerMatch

SpecStat == InitStat /\ [][NextStat]_vars

\* --------------------------------------------------------------------
\* One refresh on an empty store, late on day 0: any answer of the leagues,
\* any upsert and any marker write may throw.
InitRefresh ==
    /\ now = ClockStart
    /\ tzOffset = 0
    /\ fixture = {}
    /\ team = {}
    /\ apiFetchLog = {}
    /\ todayFixturesPromise = NoPromise
    /\ pc = [ c \in Callers |-> "idle" ]
    /\ dateKey = [ c \in Callers |-> 0 ]
    /\ existingFixtures = [ c \in Callers |-> {} ]
    /\ lastFetchLog = [ c \in Callers |-> NoLog ]
    /\ awaiting = [ c \in Callers |-> 0 ]
    /\ lastReturn = NoReturn
    /\ refresh = [ c \in Callers |-> NoRefresh ]
    /\ fetchCalls = 0
    /\ fetchesThisInstant = 0
    /\ calls = 0
    /\ teamFixtureCache = {}
    /\ teamSeasonStats = {}
    /\ inv = IdleInv
    /\ prov = IdleProv
    /\ obs = IdleObs
    /\ nowMs = 0
    /\ playerSeasonStats = {}
    /\ ps = IdlePs
    /\ player = {}
    /\ fixtureLineup = {}
    /\ lu = IdleLu
    /\ liveScoreCache = {}
    /\ match = KickedOff
    /\ lv = [ h \in Handlers |-> IdleLv ]
    /\ liveObs = IdleLiveObs
    /\ cacheRows = << >>
    /\ seasonRow = {}
    /\ perMatch = IdlePerMatch
    /\ run = IdleRun
    /\ client = IdleClient
    /\ wr = IdleWr
    /\ pssTable = {}
    /\ warm = IdleWarm
    /\ clr = IdleClr

NextRefresh ==
    \/ StartRun
    \/ RunProviderAnswers
    \/ RunProviderFails
    \/ \E i \in 1..(NumLeagues * RunFixtures), side \in Sides :
          \/ UpsertTeam(i, side)
          \/ UpsertTeamFails(i, side)
    \/ \E i \in 1..(NumLeagues * RunFixtures) :
          \/ UpsertFixtureAt(i)
          \/ UpsertFixtureFails(i)
    \/ RunSuccessLog
    \/ RunSuccessLogFails
    \/ RunFailureLog
    \/ RunFailureLogFails
    \/ RunReread

SpecRefresh == InitRefresh /\ [][NextRefresh]_vars

\* --------------------------------------------------------------------
\* The provider client: any configuration, any reply, any endpoint.
InitClient ==
    /\ now = ClockStart
    /\ tzOffset = 0
    /\ fixture = {}
    /\ team = {}
    /\ apiFetchLog = {}
    /\ todayFixturesPromise = NoPromise
    /\ pc = [ c \in Callers |-> "idle" ]
    /\ dateKey = [ c \in Callers |-> 0 ]
    /\ existingFixtures = [ c \in Callers |-> {} ]
    /\ lastFetchLog = [ c \in Callers |-> NoLog ]
    /\ awaiting = [ c \in Callers |-> 0 ]
    /\ lastReturn = NoReturn
    /\ refresh = [ c \in Callers |-> NoRefresh ]
    /\ fetchCalls = 0
    /\ fetchesThisInstant = 0
    /\ calls = 0
    /\ teamFixtureCache = {}
    /\ teamSeasonStats = {}
    /\ inv = IdleInv
    /\ prov = IdleProv
    /\ obs = IdleObs
    /\ nowMs = 0
    /\ playerSeasonStats = {}
    /\ ps = IdlePs
    /\ player = {}
    /\ fixtureLineup = {}
    /\ lu = IdleLu
    /\ liveScoreCache = {}
    /\ match = KickedOff
    /\ lv = [ h \in Handlers |-> IdleLv ]
    /\ liveObs = IdleLiveObs
    /\ cacheRows = << >>
    /\ seasonRow = {}
    /\ perMatch = IdlePerMatch
    /\ run = IdleRun
    /\ client \in [ configured : BOOLEAN, reply : Replies,
                   endpoint : {"none"}, outcome : {Threw("none", FALSE)} ]
    /\ wr = IdleWr
    /\ pssTable = {}
    /\ warm = IdleWarm
    /\ clr = IdleClr

NextClient == \E endpoint \in Endpoints : CallEndpoint(endpoint)

SpecClient == InitClient /\ [][NextClient]_vars

\* --------------------------------------------------------------------
\* Two invocations that hold the same answer of the provider and start
\* their batches; the store holds rows of any of the players from an
\* earlier refresh.
InitWriters ==
    /\ now = ClockStart
    /\ tzOffset = 0
    /\ fixture = {}
    /\ team = {}
    /\ apiFetchLog = {}
    /\ todayFixturesPromise = NoPromise
    /\ pc = [ c \in Callers |-> "idle" ]
    /\ dateKey = [ c \in Callers |-> 0 ]
    /\ existingFixtures = [ c \in Callers |-> {} ]
    /\ lastFetchLog = [ c \in Callers |-> NoLog ]
    /\ awaiting = [ c \in Callers |-> 0 ]
    /\ lastReturn = NoReturn
    /\ refresh = [ c \in Callers |-> NoRefresh ]
    /\ fetchCalls = 0
    /\ fetchesThisInstant = 0
    /\ calls = 0
    /\ teamFixtureCache = {}
    /\ teamSeasonStats = {}
    /\ inv = IdleInv
    /\ prov = IdleProv
    /\ obs = IdleObs
    /\ nowMs = 0
    /\ playerSeasonStats = {}
    /\ ps = IdlePs
    /\ warm = IdleWarm
    /\ clr = IdleClr
    /\ \E had \in SUBSET Players :
         /\ player = { [ teamId |-> "home", apiId |-> p ] : p \in had }
         /\ pssTable = { [ id |-> p, playerId |-> p, data |-> 0 ] : p \in had }
    /\ fixtureLineup = {}
    /\ lu = IdleLu
    /\ liveScoreCache = {}
    /\ match = KickedOff
    /\ lv = [ h \in Handlers |-> IdleLv ]
    /\ liveObs = IdleLiveObs
    /\ cacheRows = << >>
    /\ seasonRow = {}
    /\ perMatch = IdlePerMatch
    /\ run = IdleRun
    /\ client = IdleClient
    /\ \E raw \in RawPlayerStats :
         wr = [ answer |-> raw,
                pc |-> [ w \in Writers |->
                           [ p \in Players |->
                               IF p \in WithStats(raw) THEN "upsert"
                                                       ELSE "none" ] ],
                existing |-> [ w \in Writers |-> [ p \in Players |-> {} ] ] ]

NextWriters ==
    \E w \in Writers, p \in Players :
        \/ WriterUpsertPlayer(w, p)
        \/ WriterFindFirst(w, p)
        \/ WriterUpdate(w, p)
        \/ WriterCreate(w, p)
        \/ WriterCreateRejected(w, p)

SpecWriters == InitWriters /\ [][NextWriters]_vars
\* The synchronizer beside the season aggregator: calls of
\* getOrRefreshTodayFixtures around midnight while warm invocations fill
\* the TeamFixtureCache of a season of one fixture.
InitPrune ==
    /\ now = ClockStart
    /\ tzOffset = 0
    /\ fixture = {}
    /\ team = {}
    /\ apiFetchLog = {}
    /\ todayFixturesPromise = NoPromise
    /\ pc = [ c \in Callers |-> "idle" ]
    /\ dateKey = [ c \in Callers |-> 0 ]
    /\ existingFixtures = [ c \in Callers |-> {} ]
    /\ lastFetchLog = [ c \in Callers |-> NoLog ]
    /\ awaiting = [ c \in Callers |-> 0 ]
    /\ lastReturn = NoReturn
    /\ refresh = [ c \in Callers |-> NoRefresh ]
    /\ fetchCalls = 0
    /\ fetchesThisInstant = 0
    /\ calls = 0
    /\ teamFixtureCache = {}
    /\ teamSeasonStats = {}
    /\ inv = IdleInv
    /\ prov = [ seasonLen |-> 1, chunk |-> 1, flaky |-> FALSE, noStats |-> {} ]
    /\ obs = IdleObs
    /\ nowMs = 0
    /\ playerSeasonStats = {}
    /\ ps = IdlePs
    /\ player = {}
    /\ fixtureLineup = {}
    /\ lu = IdleLu
    /\ liveScoreCache = {}
    /\ match = KickedOff
    /\ lv = [ h \in Handlers |-> IdleLv ]
    /\ liveObs = IdleLiveObs
    /\ cacheRows = << >>
    /\ seasonRow = {}
    /\ perMatch = IdlePerMatch
    /\ run = IdleRun
    /\ client = IdleClient
    /\ wr = IdleWr
    /\ pssTable = {}
    /\ warm = IdleWarm
    /\ clr = IdleClr

NextPrune ==
    \/ NextFix
    \/ WarmFixturePart
    \/ ListAnswers
    \/ CacheRead
    \/ StatAnswers
    \/ CacheUpsert
    \/ AggRead
    \/ SeasonUpsert
    \/ LogCreate

SpecPrune == InitPrune /\ [][NextPrune]_vars

\* The warm driver on one fixture after another.
InitWarm ==
    /\ now = ClockStart
    /\ tzOffset = 0
    /\ fixture = {}
    /\ team = {}
    /\ apiFetchLog = {}
    /\ todayFixturesPromise = NoPromise
    /\ pc = [ c \in Callers |-> "idle" ]
    /\ dateKey = [ c \in Callers |-> 0 ]
    /\ existingFixtures = [ c \in Callers |-> {} ]
    /\ lastFetchLog = [ c \in Callers |-> NoLog ]
    /\ awaiting = [ c \in Callers |-> 0 ]
    /\ lastReturn = NoReturn
    /\ refresh = [ c \in Callers |-> NoRefresh ]
    /\ fetchCalls = 0
    /\ fetchesThisInstant = 0
    /\ calls = 0
    /\ teamFixtureCache = {}
    /\ teamSeasonStats = {}
    /\ inv = IdleInv
    /\ prov = IdleProv
    /\ obs = IdleObs
    /\ nowMs = 0
    /\ playerSeasonStats = {}
    /\ ps = IdlePs
    /\ player = {}
    /\ fixtureLineup = {}
    /\ lu = IdleLu
    /\ liveScoreCache = {}
    /\ match = KickedOff
    /\ lv = [ h \in Handlers |-> IdleLv ]
    /\ liveObs = IdleLiveObs
    /\ cacheRows = << >>
    /\ seasonRow = {}
    /\ perMatch = IdlePerMatch
    /\ run = IdleRun
    /\ client = IdleClient
    /\ wr = IdleWr
    /\ pssTable = {}
    /\ warm = IdleWarm
    /\ clr = IdleClr

NextWarm ==
    \/ WarmOneFixture
    \/ \E res \in PlainResults : PlainReply(res)
    \/ \E res \in FetchResults : TeamStatsReply(res)
    \/ NextFixture

SpecWarm == InitWarm /\ [][NextWarm]_vars

\* The synchronizer with the forced refresh beside it.
InitClear ==
    /\ now = ClockStart
    /\ tzOffset \in {0, 1}
    /\ fixture = {}
    /\ team = {}
    /\ apiFetchLog = {}
    /\ todayFixturesPromise = NoPromise
    /\ pc = [ c \in Callers |-> "idle" ]
    /\ dateKey = [ c \in Callers |-> 0 ]
    /\ existingFixtures = [ c \in Callers |-> {} ]
    /\ lastFetchLog = [ c \in Callers |-> NoLog ]
    /\ awaiting = [ c \in Callers |-> 0 ]
    /\ lastReturn = NoReturn
    /\ refresh = [ c \in Callers |-> NoRefresh ]
    /\ fetchCalls = 0
    /\ fetchesThisInstant = 0
    /\ calls = 0
    /\ teamFixtureCache = {}
    /\ teamSeasonStats = {}
    /\ inv = IdleInv
    /\ prov = IdleProv
    /\ obs = IdleObs
    /\ nowMs = 0
    /\ playerSeasonStats = {}
    /\ ps = IdlePs
    /\ player = {}
    /\ fixtureLineup = {}
    /\ lu = IdleLu
    /\ liveScoreCache = {}
    /\ match = KickedOff
    /\ lv = [ h \in Handlers |-> IdleLv ]
    /\ liveObs = IdleLiveObs
    /\ cacheRows = << >>
    /\ seasonRow = {}
    /\ perMatch = IdlePerMatch
    /\ run = IdleRun
    /\ client = IdleClient
    /\ wr = IdleWr
    /\ pssTable = {}
    /\ warm = IdleWarm
    /\ clr = IdleClr

NextClear ==
    \/ NextFix
    \/ ClearStart
    \/ ClearCommit

SpecClear == InitClear /\ [][NextClear]_vars

\* -------------------------------------------------------------------------
\* Claims about the Fixture Synchronizer
\* -------------------------------------------------------------------------

SuccessMarkerOfDay(logs, dk) ==
    { l \in logs : /\ l.resource = FixturesResource(dk)
                   /\ l.success
                   /\ l.fetchedAt >= dayStartUtc(dk) }

\* C1: single-flight.  At no time do two refreshes for the same calendar day
\* run in the process: overlapping callers that are not cache hits share one
\* refresh, from every store state, the cold start included.
C1_SingleFlight ==
    \A p, q \in Callers :
        (p # q /\ InFlight(p) /\ InFlight(q))
            => refresh[p].dateKey # refresh[q].dateKey

\* C2: idempotence.  Calls of ensureToday made with no elapsed time start at
\* most one provider fetch in total, whatever the provider answers.
C2_Idempotent == fetchesThisInstant <= 1

\* C3: cache hit.  A call that finds at least one Fixture row of the day and a
\* success marker fixtures:<day> fetched at or after the day's start returns
\* exactly the stored rows of the day, issues no provider call and starts or
\* registers no refresh.
C3_CacheHit ==
    [][ \A c \in Callers :
          ( /\ pc[c] = "read"
            /\ pc'[c] # "read"
            /\ InDay(fixture, dateKey[c]) # {}
            /\ SuccessMarkerOfDay(apiFetchLog, dateKey[c]) # {} )
          => ( /\ pc'[c] = "idle"
               /\ lastReturn' = [ via |-> "hit",
                                  rows |-> InDay(fixture, dateKey[c]),
                                  to |-> {c} ]
               /\ fetchCalls' = fetchCalls
               /\ refresh' = refresh
               /\ todayFixturesPromise' = todayFixturesPromise ) ]_vars

\* A cache hit has returned stored rows.
C3_Witness ==
    /\ lastReturn.via = "hit"
    /\ lastReturn.rows # {}
    /\ fetchCalls = NumLeagues

\* C4: stale-cache detection.  A call that finds no Fixture row of the day
\* never returns from the cache; it deletes every marker fixtures:<day>, and
\* then starts a refresh of its own, which calls the provider once per league.
C4_StaleCache ==
    [][ \A c \in Callers :
          /\ ( /\ pc[c] = "read"
               /\ pc'[c] # "read"
               /\ InDay(fixture, dateKey[c]) = {} )
             => ( /\ pc'[c] = "clearlog"
                  /\ lastReturn' = lastReturn
                  /\ fetchCalls' = fetchCalls )
          /\ ( pc[c] = "clearlog" /\ pc'[c] # "clearlog" )
             => ~ \E l \in apiFetchLog' :
                      l.resource = FixturesResource(dateKey[c])
          /\ ( pc[c] = "decide" /\ pc'[c] # "decide" )
             => ( /\ pc'[c] = "await"
                  /\ awaiting'[c] = c
                  /\ refresh'[c].stage = "fetching"
                  /\ fetchCalls' = fetchCalls + NumLeagues
                  /\ lastReturn' = lastReturn ) ]_vars

\* A caller read no fixture and a success marker of the day; the marker is
\* gone and the caller's own refresh is fetching from the provider.
C4_Witness ==
    \E c \in Callers :
        /\ pc[c] = "await"
        /\ awaiting[c] = c
        /\ refresh[c].stage = "fetching"
        /\ existingFixtures[c] = {}
        /\ lastFetchLog[c] # NoLog
        /\ lastFetchLog[c].fetchedAt >= dayStartUtc(dateKey[c])
        /\ SuccessMarkerOfDay(apiFetchLog, dateKey[c]) = {}


\* C24: the ApiFetchLog is append-only.  No step of the engine removes or
\* changes a marker row: every row of the log before a step is a row of
\* the log after it.
C24_AppendOnly == [][apiFetchLog \subseteq apiFetchLog']_vars

\* C23: best-effort refresh.  A refresh run that has returned wrote exactly
\* one marker of fixtures:<day>, a success marker when the provider fetch
\* stage completed and a failure marker when it threw; it returned the
\* rows of the day as the store holds them; and every fixture of the batch
\* whose own upserts did not throw is stored, whatever the others did.
C23_BestEffort ==
    run.stage = "done" =>
        /\ Len(run.markers) = 1
        /\ \A k \in 1..Len(run.markers) : run.markers[k] = ~run.fetchThrew
        /\ run.returned = { InDay(fixture, run.dateKey) }
        /\ \A i \in 1..Len(run.rawFixtures) :
               i \notin run.failed =>
                   /\ i \in run.stored
                   /\ run.rawFixtures[i] \in fixture

\* C28: write order within a refresh.  Both team upserts of a fixture have
\* completed when its fixture upsert is issued, so every Fixture row names
\* two existing Team rows; and no two fixture upserts of one refresh carry
\* the same external id, however often the leagues' answers repeat it.
C28_WriteOrder ==
    /\ \A i \in run.issued :
           \A side \in Sides : << i, side >> \in run.teamsDone
    /\ \A f \in fixture : f.home \in team /\ f.away \in team
    /\ \A i, j \in run.issued :
           run.rawFixtures[i].apiId = run.rawFixtures[j].apiId => i = j

\* A refresh has returned after storing a fixture that the leagues'
\* answers carried more than once.
C28_Witness ==
    /\ run.stage = "done"
    /\ \E i \in run.stored :
           Cardinality({ k \in 1..Len(run.flat) :
                            run.flat[k].apiId = run.rawFixtures[i].apiId }) > 1

\* C33: lifetime of the in-flight registry.  The registered refresh of a
\* day is one that has not finished: the entry is gone once its refresh has
\* settled, and no call returns the value of a refresh that had settled
\* before the call decided.
C33_RegistryLifetime ==
    /\ todayFixturesPromise # NoPromise =>
           refresh[todayFixturesPromise.owner].stage # "settled"
    /\ lastReturn.via # "joined"

\* -------------------------------------------------------------------------
\* Claims about the Team Season Aggregator
\* -------------------------------------------------------------------------

\* The external ids of the capped season fixture list.
Capped == 1..Limit(prov.seasonLen)

CeilDiv(a, b) == (a + b - 1) \div b

\* C5: resumability.  With N season fixtures within the cap, none cached, a
\* budget B and every request succeeding: no fixture's statistics are called
\* for twice and none outside the capped list; an invocation adds at most B
\* cache rows; every done:false return has added exactly B rows and leaves a
\* fixture uncached; the invocation that fetches the last uncached fixture
\* aggregates and returns done:true, after ceil(N/B) - 1 done:false returns
\* and exactly one statistics call per fixture.
C5_Resumable ==
    obs.clean =>
      /\ \A f \in 1..MaxSeason :
            /\ obs.statCalls[f] <= 1
            /\ f \notin Capped => obs.statCalls[f] = 0
      /\ inv.maxCalls.set => Cardinality(inv.stored) <= inv.maxCalls.n
      /\ inv.outcome = "false" =>
            /\ Cardinality(inv.stored) = prov.chunk
            /\ Cardinality(teamFixtureCache) = obs.falseReturns * prov.chunk
            /\ CacheIds(teamFixtureCache) # Capped
      /\ inv.outcome = "true" =>
            /\ CacheIds(teamFixtureCache) = Capped
            /\ \A f \in Capped : obs.statCalls[f] = 1
            /\ obs.falseReturns =
                 IF Capped = {} THEN 0
                 ELSE CeilDiv(Cardinality(Capped), prov.chunk) - 1
            /\ inv.wroteSeason
            /\ inv.wroteMarker

\* A season longer than the budget was completed in several invocations.
C5_Witness ==
    /\ obs.clean
    /\ inv.outcome = "true"
    /\ obs.falseReturns >= 1
    /\ Cardinality(teamFixtureCache) > prov.chunk
    /\ Cardinality(inv.stored) < prov.chunk

\* C6: call budget.  An invocation given a budget B issues at most B
\* statistics calls, whether they return statistics, fail or return no data.
C6_CallBudget ==
    inv.maxCalls.set =>
      /\ inv.apiCalls <= inv.maxCalls.n
      /\ Cardinality(inv.called) <= inv.maxCalls.n

\* An invocation used up a budget of more than one call, a call of which
\* returned nothing, and returned done:false.
C6_Witness ==
    /\ inv.maxCalls.set
    /\ inv.maxCalls.n > 1
    /\ inv.apiCalls = inv.maxCalls.n
    /\ inv.stored # inv.called
    /\ inv.outcome = "false"

\* C7: early exit.  An invocation entered while a TeamSeasonStats row exists,
\* or a success marker of the same day, issues no provider call: neither the
\* season fixture-list call nor a statistics call.
C7_EarlyExit ==
    (inv.hadRow \/ inv.hadMarker) => (inv.listCalls = 0 /\ inv.apiCalls = 0)

\* C8: completion condition.  done:true is returned, and the TeamSeasonStats
\* row and the marker are written, only when every fixture of the capped
\* list has a TeamFixtureCache row.
C8_DoneOnlyWhenAllCached ==
    (inv.outcome = "true" \/ inv.wroteSeason \/ inv.wroteMarker)
        => (1..inv.limit) \subseteq CacheIds(teamFixtureCache)

\* C9: convergence.  A driver that keeps re-invoking with a positive budget
\* eventually gets done:true, whichever fixtures the provider has no
\* statistics of.
C9_Converges == <>(inv.outcome = "true")

RowsAreProviderStats ==
    \A r \in teamFixtureCache :
        /\ r.apiFixtureId \notin prov.noStats
        /\ r = CacheRow(r.apiFixtureId, StatOf(r.apiFixtureId),
                        MetaOf(r.apiFixtureId))

\* The invocation has skipped exactly the fixtures that had a cache row:
\* it called for none of them, and passed no other fixture without a call.
SkippedExactlyCached ==
    /\ inv.cached = (CacheIds(teamFixtureCache) \ inv.stored)
                        \cap (1..inv.limit)
    /\ inv.called \cap inv.cached = {}
    /\ \A k \in 1..(inv.i - 1) :
          k <= inv.limit => (k \in inv.cached \/ k \in inv.called)

CacheWasRead ==
    /\ inv.pc \notin {"list", "cacheRead"}
    /\ inv.cutAt \notin {"list", "cacheRead"}

\* C10 as stated: after a cut-off at any suspension point the cache rows are
\* rows of statistics the provider returned, the invocation has written no
\* TeamSeasonStats row and no marker, and the next invocation skips exactly
\* the cached fixtures.
C10_CutOffSafe ==
    /\ inv.outcome = "cut" =>
          /\ RowsAreProviderStats
          /\ ~inv.wroteSeason
          /\ ~inv.wroteMarker
    /\ (inv.prevCut /\ CacheWasRead) => SkippedExactlyCached

BeforeAggregationWrite == {"list", "cacheRead", "stat", "upsert", "aggRead"}

\* C10, amended: cache rows are always rows of statistics the provider
\* returned; an invocation cut off before it issues the TeamSeasonStats
\* upsert has written no TeamSeasonStats row and no marker; the invocation
\* after a cut-off skips exactly the cached fixtures.
C10_CutOffSafeBeforeAggregation ==
    /\ RowsAreProviderStats
    /\ (inv.outcome = "cut" /\ inv.cutAt \in BeforeAggregationWrite) =>
          (~inv.wroteSeason /\ ~inv.wroteMarker)
    /\ (inv.prevCut /\ CacheWasRead) => SkippedExactlyCached

\* The invocation after a cut-off has passed a cached fixture without a call
\* and waits for the statistics of an uncached one.
C10_Witness ==
    /\ inv.prevCut
    /\ inv.pc = "stat"
    /\ inv.cached # {}
    /\ inv.i > 1
    /\ CurrentId \notin inv.cached

\* The TeamFixtureCache rows of the capped fixture list of the invocation.
RowsOfCappedList ==
    { r \in teamFixtureCache : r.apiFixtureId \in 1..inv.limit }

\* C11: aggregation round trip.  When an invocation has completed, the
\* TeamSeasonStats row's corners, yellowCards and redCards are the sums of
\* those fields over the cache rows of the capped fixture list, goalsFor and
\* goalsAgainst are the sums of those rows' goalsFor and goalsAgainst, and
\* minutesPlayed is 90 times the number of those fixtures.
C11_RoundTrip ==
    inv.outcome = "true" =>
      \A s \in teamSeasonStats :
        /\ s.corners = SumRows(RowsOfCappedList, "corners")
        /\ s.yellowCards = SumRows(RowsOfCappedList, "yellowCards")
        /\ s.redCards = SumRows(RowsOfCappedList, "redCards")
        /\ s.goalsFor = SumRows(RowsOfCappedList, "goalsFor")
        /\ s.goalsAgainst = SumRows(RowsOfCappedList, "goalsAgainst")
        /\ s.minutesPlayed = 90 * inv.limit

\* C26: budget stop rule.  An invocation returns done:false only at a
\* fixture of the capped list that has no TeamFixtureCache row; a fixture
\* that has one is passed over and never stops the invocation, also when the
\* budget has just been used up.
C26_StopsOnlyAtUncached ==
    inv.outcome = "false" =>
        /\ inv.i <= inv.limit
        /\ ~IsCached(inv.cached, inv.list.fixtureIds[inv.i])
        /\ inv.list.fixtureIds[inv.i] \notin CacheIds(teamFixtureCache)

\* The fixtures whose statistics call of this invocation delivered nothing.
FailedStatCalls ==
    (inv.called \ inv.stored) \ (IF inv.pc \in {"stat", "upsert"}
                                 THEN {CurrentId} ELSE {})

\* C27: failed statistics call.  A fixture whose statistics call failed or
\* returned no data gets no TeamFixtureCache row, and the invocation does
\* not complete the season on account of it: it writes neither the
\* TeamSeasonStats row nor the marker and does not return done:true.
C27_FailedCallNotDone ==
    FailedStatCalls # {} =>
        /\ FailedStatCalls \cap CacheIds(teamFixtureCache) = {}
        /\ inv.outcome # "true"
        /\ ~inv.wroteSeason
        /\ ~inv.wroteMarker

\* The xG per match the rows call for: the summed xG over the number of
\* rows that report one, null when none does.
XgPerReporting(rows) ==
    IF xgCount(rows) > 0 THEN { Quotient(xgSum(rows), xgCount(rows)) } ELSE {}

\* C30: xG averaging.  Both the season figure, read from the season row of
\* a fully cached season, and the rolling form divide the summed xG by the
\* number of fixtures that reported an xG, and are null when none did.
C30_XgAveraging ==
    /\ ( perMatch.season.done /\ perMatch.season.row # {} ) =>
           SameFigure(perMatch.season.xgPer90, XgPerReporting(cacheRows))
    /\ perMatch.last5.done =>
           SameFigure(perMatch.last5.xgPer90, XgPerReporting(cacheRows))

\* C37: failed fixture-list call.  An invocation whose season fixture-list
\* call failed writes no TeamSeasonStats row and no marker and does not
\* return done:true.
C37_NoAggregateFromFailedList ==
    inv.listFailed =>
        /\ ~inv.wroteSeason
        /\ ~inv.wroteMarker
        /\ inv.outcome # "true"

\* C38: frame of a done:false invocation.  An invocation that has returned
\* done:false has written neither the TeamSeasonStats row nor a marker;
\* TeamSeasonStats and ApiFetchLog change only in the steps that set these
\* flags; and a step of an invocation leaves every TeamFixtureCache row in
\* place but the rows of the fixtures the invocation itself fetched.
C38_FalseReturnFrame ==
    [][ /\ inv'.outcome = "false" =>
              /\ ~inv'.wroteSeason
              /\ ~inv'.wroteMarker
              /\ inv'.stored \subseteq inv'.called
        /\ teamSeasonStats' # teamSeasonStats =>
              inv'.wroteSeason /\ inv'.outcome # "false"
        /\ apiFetchLog' # apiFetchLog =>
              inv'.wroteMarker /\ inv'.outcome # "false"
        /\ \A row \in teamFixtureCache :
              row \in teamFixtureCache' \/ row.apiFixtureId \in inv'.called
        /\ CacheIds(teamFixtureCache') \ CacheIds(teamFixtureCache)
              \subseteq inv'.stored ]_vars

\* A budgeted invocation has stored a fixture beside the rows that were
\* there and has returned done:false.
C38_Witness ==
    /\ inv.outcome = "false"
    /\ inv.stored # {}
    /\ CacheIds(teamFixtureCache) \ inv.stored # {}
    /\ inv.stored \subseteq CacheIds(teamFixtureCache)

\* ------------------------------------------------------------ Part III

\* C12: cooldown.  When fetchAndStorePlayerStats is called less than 24 hours
\* after the start of the previous call for the key, and the provider
\* answered that previous call (with whatever list of players, an empty one
\* or one of all-zero players included), the later call issues no provider
\* call.
C12_Cooldown ==
    ( /\ ps.prevStart >= 0
      /\ ps.prevAnswered
      /\ ps.start - ps.prevStart < PLAYER_STATS_REFRESH_COOLDOWN_MS )
    => ps.calls = 0

\* ------------------------------------------------------------- Part IV

\* C13: lineup single-fetch.  A call of ensureLineupIfWithinWindow that finds
\* at least one FixtureLineup row of the fixture issues no provider call and
\* writes nothing, whenever it is made.
C13_SingleFetch ==
    lu.hadRows => lu.calls = 0 /\ ~lu.wrote /\ lu.pc = "idle"

\* A call made inside the fetch window has found rows and has returned.
C13_Witness ==
    /\ lu.hadRows
    /\ lu.pc = "idle"
    /\ lu.now >= kickoffTime - WINDOW_MINUTES_BEFORE_KICKOFF * MsPerMinute
    /\ lu.now <= kickoffTime

\* C14: window gating.  A call that finds no FixtureLineup row issues exactly
\* one lineup call when kickoff - 30 min <= now <= kickoff, both ends
\* included, and none before or after.
C14_WindowGating ==
    (lu.decided /\ ~lu.hadRows) =>
        lu.calls =
            IF /\ kickoffTime - WINDOW_MINUTES_BEFORE_KICKOFF * MsPerMinute
                    <= lu.now
               /\ lu.now <= kickoffTime
            THEN 1 ELSE 0

\* A call made at kickoff, no row stored, has issued its one call and has
\* returned.
C14_Witness ==
    /\ lu.decided
    /\ ~lu.hadRows
    /\ lu.now = kickoffTime
    /\ lu.calls = 1
    /\ lu.pc = "idle"

\* C15: the lineup is fetched once.  After a lineup call has returned lineup
\* data for the fixture, no later call of ensureLineupIfWithinWindow calls
\* the provider.
C15_FetchedOnce ==
    lu.callsAfterData = 0

\* C31: lineup failure is contained.  When the lineup call or the store
\* write that follows it has failed, the call has returned to its caller
\* leaving no FixtureLineup row of the fixture, and a later call that lands
\* inside the fetch window, the failure still being the latest outcome,
\* calls the provider again.
C31_FailureContained ==
    lu.lastFetchFailed =>
        /\ lu.pc = "idle" => fixtureLineup = {}
        /\ ( lu.decided /\ isWithinLineupFetchWindow(kickoffTime, lu.now) ) =>
               lu.calls = 1

\* A call inside the window is at the provider again after the lineup
\* fetch of an earlier call failed.
C31_Witness ==
    /\ lu.lastFetchFailed
    /\ lu.pc = "fetch"
    /\ lu.calls = 1
    /\ fixtureLineup = {}

\* -------------------------------------------------------------- Part V

\* C16: live terminal freeze.  A handler that begins after a handler has
\* served a terminal status it got from the provider issues no provider
\* call and serves the same homeGoals, awayGoals and status, at any later
\* time.
C16_TerminalFreeze ==
    \A h \in Handlers :
        lv[h].afterTerminal =>
            /\ lv[h].calls = 0
            /\ lv[h].response.sent =>
                 \E t \in liveObs.terminal :
                     /\ lv[h].response.homeGoals = t.homeGoals
                     /\ lv[h].response.awayGoals = t.awayGoals
                     /\ lv[h].response.statusShort = t.statusShort

\* C17: before kickoff the handler issues no provider call and neither reads
\* nor writes LiveScoreCache; it answers "not live" before kickoff - 10 min
\* and a 0-0 with status "Pre" and no elapsed minutes from then on.
C17_BeforeKickoff ==
    \A h \in Handlers :
        (lv[h].now >= 0 /\ lv[h].now < kickoffTime) =>
            /\ lv[h].pc = "idle"
            /\ lv[h].calls = 0
            /\ ~lv[h].readCache
            /\ ~lv[h].wroteCache
            /\ lv[h].response.sent
            /\ IF lv[h].now < kickoffTime - 10 * 60 * 1000
               THEN ~lv[h].response.live
               ELSE /\ lv[h].response.live
                    /\ lv[h].response.homeGoals = 0
                    /\ lv[h].response.awayGoals = 0
                    /\ lv[h].response.statusShort = "Pre"
                    /\ lv[h].response.elapsedMinutes = {}

\* A handler began exactly 10 minutes before kickoff and has answered.
C17_Witness ==
    \E h \in Handlers :
        /\ lv[h].now = kickoffTime - 10 * 60 * 1000
        /\ lv[h].response.sent
        /\ lv[h].response.statusShort = "Pre"

C19_RefreshFallback ==
    \A h \in Handlers :
        ( /\ lv[h].outcome # "none"
          /\ lv[h].pc = "idle"
          /\ lv[h].now - kickoffTime <= 120 * 60 * 1000 ) =>
            /\ lv[h].calls = 1
            /\ IF lv[h].outcome = "result"
               THEN /\ lv[h].wroteCache
                    /\ lv[h].response = Served(lv[h].inflight)
               ELSE IF lv[h].cached = {}
               THEN lv[h].response = Placeholder("?")
               ELSE lv[h].response = Served(TheRow(lv[h].cached))

\* C20: past the match window.  A handler that begins more than 120 minutes
\* after kickoff and reads a row of a non-terminal status serves a terminal
\* status: it calls the provider once, stores and serves a terminal result,
\* and otherwise serves the cached goals with status "FT" and no elapsed
\* minutes.
C20_PastWindow ==
    \A h \in Handlers :
        \A row \in lv[h].cached :
            ( /\ lv[h].now - kickoffTime > 120 * 60 * 1000
              /\ ~isMatchEnded(row.statusShort)
              /\ lv[h].response.sent ) =>
                /\ isMatchEnded(lv[h].response.statusShort)
                /\ lv[h].calls = 1
                /\ IF lv[h].outcome = "result"
                      /\ isMatchEnded(lv[h].inflight.statusShort)
                   THEN /\ lv[h].wroteCache
                        /\ lv[h].response = Served(lv[h].inflight)
                   ELSE /\ lv[h].response.homeGoals = row.homeGoals
                        /\ lv[h].response.awayGoals = row.awayGoals
                        /\ lv[h].response.statusShort = "FT"
                        /\ lv[h].response.elapsedMinutes = {}

\* C29: terminal rows hide the minutes after the window.  A handler that
\* begins more than 120 minutes after kickoff and serves a LiveScoreCache
\* row of a terminal status answers without elapsed minutes, whatever
\* minute the row stores.
C29_TerminalHidesMinutes ==
    \A h \in Handlers :
        \A row \in lv[h].cached :
            ( /\ lv[h].response.sent
              /\ isMatchEnded(row.statusShort)
              /\ lv[h].now - kickoffTime > 120 * 60 * 1000 ) =>
                lv[h].response.elapsedMinutes = {}

\* C36: the terminal status is monotone under concurrency.  Once the
\* LiveScoreCache row holds a terminal status, no step of any handler
\* replaces it by a row of a non-terminal status or of a different score.
C36_TerminalMonotone ==
    [][ \A row \in liveScoreCache :
            isMatchEnded(row.statusShort) =>
                \A next \in liveScoreCache' :
                    /\ isMatchEnded(next.statusShort)
                    /\ next.homeGoals = row.homeGoals
                    /\ next.awayGoals = row.awayGoals ]_vars

\* C39: past the match window without a row.  A handler that begins more
\* than 120 minutes after kickoff and reads no LiveScoreCache row issues
\* no provider call, writes no row and answers 0-0 with status "FT".
C39_NeverPolled ==
    \A h \in Handlers :
        ( /\ lv[h].readCache
          /\ lv[h].cached = {}
          /\ lv[h].now - kickoffTime > 120 * 60 * 1000 ) =>
            /\ lv[h].pc = "idle"
            /\ lv[h].calls = 0
            /\ ~lv[h].wroteCache
            /\ lv[h].response.sent
            /\ lv[h].response.homeGoals = 0
            /\ lv[h].response.awayGoals = 0
            /\ lv[h].response.statusShort = "FT"

\* Both handlers have begun past the match window, one after the other has
\* answered, and the store still holds no row.
C39_Witness ==
    /\ liveScoreCache = {}
    /\ \A h \in Handlers :
           /\ lv[h].readCache
           /\ lv[h].cached = {}
           /\ lv[h].response.sent
           /\ lv[h].now - kickoffTime > 120 * 60 * 1000
    /\ \E h \in Handlers : lv[h].calls = 0 /\ ~liveObs.overlapped

\* A handler's re-fetch past the match window has ended without a terminal
\* result: the call threw, returned nothing or a non-terminal status.
LateFailed(g) ==
    /\ lv[g].pc = "idle"
    /\ lv[g].calls = 1
    /\ ~lv[g].wroteCache
    /\ lv[g].now - kickoffTime > 120 * 60 * 1000

\* C40: a post-window re-fetch that fails or returns a non-terminal status
\* leaves the LiveScoreCache row as it is and answers the cached goals
\* with status "FT" and no minutes; and a later handler that reads the
\* same row calls the provider again.
C40_LateRefetchFrame ==
    [][ \A h \in Handlers :
          /\ ( lv[h].pc = "fetchLate" /\ lv'[h].pc = "idle" ) =>
                 /\ liveScoreCache' = liveScoreCache
                 /\ ~lv'[h].wroteCache
                 /\ \A row \in lv[h].cached :
                        /\ lv'[h].response.homeGoals = row.homeGoals
                        /\ lv'[h].response.awayGoals = row.awayGoals
                        /\ lv'[h].response.statusShort = "FT"
                        /\ lv'[h].response.elapsedMinutes = {}
                        /\ row \in liveScoreCache => row \in liveScoreCache'
          /\ \A g \in Handlers \ {h} :
                 ( /\ LateFailed(g)
                   /\ lv[h].pc = "cache"
                   /\ lv'[h].pc # "cache"
                   /\ lv[h].now >= lv[g].now
                   /\ liveScoreCache = lv[g].cached ) =>
                     /\ lv'[h].pc = "fetchLate"
                     /\ lv'[h].calls = 1 ]_vars

\* After a handler's post-window re-fetch ended without a terminal result,
\* a later handler has read the same row and is at the provider.
C40_Witness ==
    \E g \in Handlers : \E h \in Handlers \ {g} :
        /\ LateFailed(g)
        /\ lv[h].pc = "fetchLate"
        /\ lv[h].cached = lv[g].cached
        /\ lv[h].cached = liveScoreCache
        /\ lv[h].now >= lv[g].now

\* ======================================================================
\* Claims about the External Provider Client
\* ======================================================================

\* C21: plan-limitation handling.  For every endpoint wrapper, a reply of
\* the provider that carries a plan-limitation error, as request()
\* recognises one, yields the empty result and raises no error.
C21_PlanLimitationEmpty ==
    ( /\ client.endpoint # "none"
      /\ client.configured
      /\ client.reply.ok
      /\ hasRealErrors(client.reply.errors)
      /\ isPlanLimitation(client.reply.errors) ) =>
        /\ client.outcome.threw = "none"
        /\ client.outcome.value = "empty"

\* C22: configuration errors.  With the base URL or the API key missing, a
\* call of any endpoint issues no network request and ends in the
\* configuration error, not in an empty result.
C22_ConfigSurfaced ==
    ( client.endpoint # "none" /\ ~client.configured ) =>
        /\ ~client.outcome.fetched
        /\ client.outcome.threw = "config"

\* ======================================================================
\* Claims about concurrent writers
\* ======================================================================

\* Every storeOne of both invocations has ended.
WritersFinished ==
    \A w \in Writers : \A p \in Players :
        wr.pc[w][p] \in {"none", "done", "rejected"}

ReturnsTo(c) == lastReturn' # lastReturn /\ c \in lastReturn'.to

\* The pruning transaction of caller c commits in this step.
PruneStep(c) == pc[c] = "prune" /\ pc'[c] = "read"

\* Pruning touches no aggregate, and no step removes a TeamFixtureCache key.
AggregatesKept ==
    /\ \A c \in Callers :
           PruneStep(c) =>
               /\ teamSeasonStats' = teamSeasonStats
               /\ teamFixtureCache' = teamFixtureCache
               /\ playerSeasonStats' = playerSeasonStats
    /\ CacheIds(teamFixtureCache) \subseteq CacheIds(teamFixtureCache')

StepIndex(part) == CHOOSE i \in 1..Len(Steps) : Steps[i] = part

\* The i-th request of the attempt was answered with a success.
AnsweredOk(i) == i <= Len(warm.replies) /\ warm.replies[i].ok

\* C34: warm driver order.  Within an attempt the first request is home and
\* every further request is of the same step or of the next one; a step is
\* left only on a successful answer, teamstats only on one whose done is
\* not false, so teamstats-away follows a teamstats-home answer that
\* reported done; a teamstats answer with done false is followed by the
\* same request again and one with done not false by the next step; a
\* failed request of a plain step ends the attempt, a failed teamstats
\* request is followed only by its own retries.
C34_WarmOrder ==
    LET req == warm.requested
        rep == warm.replies
        at(i) == StepIndex(req[i])
    IN  /\ Len(rep) <= Len(req)
        /\ Len(req) > 0 => req[1] = "home"
        /\ \A i \in 1..Len(req) - 1 :
               /\ at(i + 1) \in { at(i), at(i) + 1 }
               /\ at(i + 1) = at(i) => at(i) \in TeamStatsSteps
               /\ at(i + 1) = at(i) + 1 =>
                      /\ rep[i].ok
                      /\ at(i) \in TeamStatsSteps => rep[i].done # "false"
               /\ ( at(i) \in TeamStatsSteps /\ rep[i].ok
                      /\ rep[i].done # "false" ) => at(i + 1) = at(i) + 1
        /\ \A j \in 1..Len(req) :
               req[j] = "teamstats-away" =>
                   \E i \in 1..j - 1 : /\ req[i] = "teamstats-home"
                                       /\ rep[i].ok
                                       /\ rep[i].done # "false"
        /\ \A i \in 1..Len(rep) :
               /\ ( at(i) \in TeamStatsSteps /\ rep[i].ok
                      /\ rep[i].done = "false" ) =>
                      i < Len(req) /\ req[i + 1] = req[i]
               /\ ( ~rep[i].ok /\ at(i) \notin TeamStatsSteps ) =>
                      /\ i = Len(req)
                      /\ warm.pc = "idle"
                      /\ warm.result = "failed"
               /\ ( ~rep[i].ok /\ i < Len(req) ) => req[i + 1] = req[i]

\* An attempt went through all six steps; teamstats-home was asked again
\* after done false, and a failed teamstats-away request was retried.
C34_Witness ==
    /\ warm.result = "ok"
    /\ Len(warm.requested) = MaxWarmRequests
    /\ \E i \in 1..Len(warm.replies) :
           /\ warm.requested[i] = "teamstats-home"
           /\ warm.replies[i].done = "false"
    /\ \E i \in 1..Len(warm.replies) :
           /\ warm.requested[i] = "teamstats-away"
           /\ ~warm.replies[i].ok

\* The call of caller c is the first one begun since the clear completed.
NextCallAfterClear(c) ==
    /\ Cleared
    /\ c \notin clr.busy
    /\ pc[c] # "idle"
    /\ calls = clr.callsAt + 1
    /\ dateKey[c] = clr.dateKey

\* C35: forced refresh.  When clearTodayFixturesCacheAndData completes, the
\* store holds no Fixture row of the day and no fixtures:<day> marker and
\* no refresh is registered; and the first call for that day begun after it
\* does not return from the store or from a registered refresh: it starts
\* a refresh, which fetches from the provider.
C35_ForcedRefresh ==
    [][ /\ ( clr.pc = "delete" /\ clr'.pc = "idle" ) =>
               /\ InDay(fixture', clr.dateKey) = {}
               /\ \A l \in apiFetchLog' :
                      l.resource # FixturesResource(clr.dateKey)
               /\ todayFixturesPromise' = NoPromise
        /\ \A c \in Callers :
               ( NextCallAfterClear(c) /\ ReturnsTo(c) ) =>
                   /\ lastReturn'.via = "refresh"
                   /\ fetchCalls' >= clr.fetchCallsAt + NumLeagues ]_vars
====
